---------------------------- MODULE Spec2Model ----------------------------
(***************************************************************************)
(* A model of the cie-color library of webdiscus/color-palette-generator:  *)
(* the chromatic adaptation cache, the hex colour grammar and parser, the  *)
(* alpha blending of Rgb objects and the palette synthesizer.              *)
(*                                                                         *)
(* Numbers.  The library computes in IEEE doubles.  The model computes in  *)
(* fixed point: a quantity q is the integer Rnd(q * scale) for the scale   *)
(* named next to it, and every product or quotient is rounded to nearest.  *)
(* A value JavaScript would hold as NaN or undefined is the record field   *)
(* nan = TRUE (see Num below).                                             *)
(***************************************************************************)
EXTENDS Integers, Sequences, FiniteSets, TLC

VARIABLES
    \* ChromaticAdaptation.js: let cache = {} (line 39), and the last call
    cache,        \* function: cache key (a string) -> matrix
    caCall,       \* the arguments of the last getMatrix call, or NoCall
    caResult,     \* what that call returned (or that it threw)
    caCalls,      \* how many calls were made (bounded by MaxCalls)
    transforms,   \* the transform property of every RGB space
    \* A string, the call made with it (isHexColor or Color.fromHex) and
    \* what the call returned
    hexIn,
    hexCall,
    hexResult,
    \* The Rgb objects a client holds (a sequence indexed by reference), the
    \* last blend call made on them and what it returned
    objs,
    blendCall,
    blendResult,
    \* The reference palettes given to findClosestPalette (each colour as its
    \* deltaE to the seed), the call made and what it returned
    closestIn,
    closestCall,
    closestResult,
    \* A hex seed, the ColorPalette call made with it and what it returned
    palSeed,
    palCall,
    palResult,
    \* An Rgb a client holds, the conversion called on it and what it returned
    convRgb,
    convCall,
    convResult,
    \* The chromas and hues of two Lab colours, the deltaE2000 call made with
    \* them and the hue terms it computed
    deltaIn,
    deltaCall,
    deltaResult,
    \* An RGB space and a channel value, the transfer function last called
    \* and what it returned
    tfIn,
    tfCall,
    tfResult,
    \* ColorPalette's white and black, a colour or tone name, the getColorTone
    \* call made with it and what it returned
    toneWhite,
    toneBlack,
    toneIn,
    toneCall,
    toneResult,
    \* An RgbSpace's transform property, the call last made on the space, what
    \* it returned and how many calls were made (bounded by MaxSpaceCalls)
    transform,
    spaceCall,
    spaceResult,
    spaceCalls,
    \* A 3x3 matrix, the invertMatrix call made with it and what it returned
    invertIn,
    invertCall,
    invertResult,
    \* A meta whitepoint, the getWhitepoint call made with it and what it
    \* returned
    wpIn,
    wpCall,
    wpResult,
    \* The registry CAT of adaptation methods, the call last made on it, what
    \* it returned and how many calls were made (bounded by MaxRegistryCalls)
    registry,
    regCall,
    regResult,
    regCalls,
    \* The tone walk of createPalette: its constants, the index of the colour
    \* the callback is called with next, maxLightness, what the callback did
    \* with the colour before, and the colours mapped
    walkCtx,
    walkIndex,
    walkMax,
    walkTone,
    walkOut,
    \* A RectSlider: its configuration, eventData.value, prevValue, its two
    \* Movable objects, where the thumb is drawn, which of the Movable objects
    \* is dragged, the last operation with what it returned, and the number
    \* of operations so far
    slider,
    slValue,
    slPrev,
    slMovables,
    slThumb,
    slDrag,
    slCall,
    slResult,
    slOps,
    \* A Movable: isEnabled, whether its listener of 'mousedown' is on the
    \* event target and its listeners of 'mousemove' and 'mouseup' on
    \* document, whether requestAnimationId is not 0, whether the browser has
    \* a frame queued for onDraw, delta.x, eventData.x, pos.x, where the
    \* target is drawn, whether the mouse button is down, and the events
    \* dispatched
    mvEnabled,
    mvMouseDown,
    mvListening,
    mvRequestId,
    mvFrame,
    mvDelta,
    mvX,
    mvPos,
    mvTarget,
    mvPressed,
    mvEvents

caVars == <<cache, caCall, caResult, caCalls, transforms>>
hexVars == <<hexIn, hexCall, hexResult>>
blendVars == <<objs, blendCall, blendResult>>
closestVars == <<closestIn, closestCall, closestResult>>
palVars == <<palSeed, palCall, palResult>>
convVars == <<convRgb, convCall, convResult>>
deltaVars == <<deltaIn, deltaCall, deltaResult>>
tfVars == <<tfIn, tfCall, tfResult>>
toneVars == <<toneWhite, toneBlack, toneIn, toneCall, toneResult>>
spaceVars == <<transform, spaceCall, spaceResult, spaceCalls>>
invertVars == <<invertIn, invertCall, invertResult>>
wpVars == <<wpIn, wpCall, wpResult>>
regVars == <<registry, regCall, regResult, regCalls>>
walkVars == <<walkCtx, walkIndex, walkMax, walkTone, walkOut>>
sliderVars == <<
    slider, slValue, slPrev, slMovables, slThumb, slDrag, slCall, slResult, slOps>>
movableVars == <<
    mvEnabled, mvMouseDown, mvListening, mvRequestId, mvFrame, mvDelta, mvX, mvPos, mvTarget, mvPressed, mvEvents>>

vars == <<cache, caCall, caResult, caCalls, transforms, hexIn, hexCall,
          hexResult, objs, blendCall, blendResult, closestIn, closestCall,
          closestResult, palSeed, palCall, palResult, convRgb, convCall,
          convResult, deltaIn, deltaCall, deltaResult, tfIn, tfCall,
          tfResult, toneWhite, toneBlack, toneIn, toneCall, toneResult,
          transform, spaceCall, spaceResult, spaceCalls, invertIn,
          invertCall, invertResult, wpIn, wpCall, wpResult, registry,
          regCall, regResult, regCalls, walkCtx, walkIndex, walkMax,
          walkTone, walkOut, slider, slValue, slPrev, slMovables, slThumb,
          slDrag, slCall, slResult, slOps, mvEnabled, mvMouseDown,
          mvListening, mvRequestId, mvFrame, mvDelta, mvX, mvPos, mvTarget,
          mvPressed, mvEvents>>

---------------------------------------------------------------------------
(* Fixed-point helpers.                                                    *)

Abs(n) == IF n < 0 THEN -n ELSE n

\* n / d rounded to the nearest integer (halves away from zero), d # 0.
Rnd(n, d) ==
    LET an == Abs(n)
        ad == Abs(d)
        q  == (2 * an + ad) \div (2 * ad)
    IN  IF (n < 0) = (d < 0) THEN q ELSE -q

\* A JavaScript number: a fixed-point value, or NaN (also what arithmetic
\* makes of undefined).
N(v) == [nan |-> FALSE, v |-> v]
NaN == [nan |-> TRUE, v |-> 0]

\* a > b and a < b are false when either side is NaN.
NumGt(a, b) == ~a.nan /\ ~b.nan /\ a.v > b.v
NumLt(a, b) == ~a.nan /\ ~b.nan /\ a.v < b.v

\* What a call returns: a value of some kind, or a thrown error.
Returned(kind, value) == [kind |-> kind, value |-> value]
Thrown == Returned("throw", <<>>)
NoCall == [op |-> "none"]
\* The call slot of a component a specification does not exercise.
Idle == [op |-> "idle"]
NoResult == Returned("none", <<>>)

---------------------------------------------------------------------------
(* ColorMatrix.js: 3x3 matrices <<row1, row2, row3>> of entries scaled by  *)
(* MatScale.                                                               *)

MatScale == 10 * 10

linearTransform(a, v) ==
    [i \in 1..3 |-> Rnd(a[i][1] * v[1] + a[i][2] * v[2] + a[i][3] * v[3], MatScale)]

multiplyMatrices(a, b) ==
    [i \in 1..3 |->
        [j \in 1..3 |->
            Rnd(a[i][1] * b[1][j] + a[i][2] * b[2][j] + a[i][3] * b[3][j], MatScale)]]

\* The determinant is scaled by MatScale^3 and a cofactor by MatScale^2, so
\* invertDetA * cofactor is cofactor * MatScale / detA; scaled by MatScale.
invertMatrix(a) ==
    LET detA == a[1][1] * (a[3][3] * a[2][2] - a[3][2] * a[2][3])
              - a[2][1] * (a[3][3] * a[1][2] - a[3][2] * a[1][3])
              + a[3][1] * (a[2][3] * a[1][2] - a[2][2] * a[1][3])
        inv(c) == Rnd(c * MatScale * MatScale, detA)
    IN  << << inv(a[3][3] * a[2][2] - a[3][2] * a[2][3]),
              -inv(a[3][3] * a[1][2] - a[3][2] * a[1][3]),
              inv(a[2][3] * a[1][2] - a[2][2] * a[1][3]) >>,
           << -inv(a[3][3] * a[2][1] - a[3][1] * a[2][3]),
              inv(a[3][3] * a[1][1] - a[3][1] * a[1][3]),
              -inv(a[2][3] * a[1][1] - a[2][1] * a[1][3]) >>,
           << inv(a[3][2] * a[2][1] - a[3][1] * a[2][2]),
              -inv(a[3][2] * a[1][1] - a[3][1] * a[1][2]),
              inv(a[2][2] * a[1][1] - a[2][1] * a[1][2]) >> >>

---------------------------------------------------------------------------
(* data/Illuminant.js and ColorUtils.js: whitepoints.                      *)

\* The chromaticity coordinates x, y scaled by XyScale (4 decimals).
XyScale == 100 * 100

ChromaticityObserver2Degree ==
    [D50 |-> <<3457, 3585>>, D65 |-> <<3127, 3290>>]

ChromaticityObserver10Degree ==
    [D50 |-> <<3477, 3595>>, D60 |-> <<3230, 3393>>, D65 |-> <<3138, 3310>>]

Chromaticity ==
    [o \in {"2", "10"} |->
        IF o = "2" THEN ChromaticityObserver2Degree ELSE ChromaticityObserver10Degree]

xyToXYZ(x, y) == << Rnd(x * MatScale, y), MatScale, Rnd((XyScale - x - y) * MatScale, y) >>

\* A MetaWhitepoint is [illuminant, observer], each a string or "undefined".
Undefined == "undefined"

\* The destructuring defaults of getWhitepoint and of getMatrix.
OrDefault(v, d) == IF v = Undefined THEN d ELSE v

\* Chromaticity[observer][illuminant] is undefined for a name the table of
\* that observer does not hold, and destructuring undefined throws.
getWhitepointThrows(meta) ==
    LET illuminant == OrDefault(meta.illuminant, "D65")
        observer   == OrDefault(meta.observer, "2")
    IN  \/ observer \notin DOMAIN Chromaticity
        \/ illuminant \notin DOMAIN Chromaticity[observer]

getWhitepoint(meta) ==
    LET illuminant == OrDefault(meta.illuminant, "D65")
        observer   == OrDefault(meta.observer, "2")
        xy         == Chromaticity[observer][illuminant]
    IN  xyToXYZ(xy[1], xy[2])

---------------------------------------------------------------------------
(* ChromaticAdaptation.js                                                  *)

CAT ==
    [XYZScaling |-> << <<100, 0, 0>>, <<0, 100, 0>>, <<0, 0, 100>> >>,
     vonkries   |-> << <<40, 71, -8>>, <<-23, 117, 5>>, <<0, 0, 92>> >>,
     bradford   |-> << <<90, 27, -16>>, <<-75, 171, 4>>, <<4, -7, 103>> >>,
     cat02      |-> << <<73, 43, -16>>, <<-70, 170, 1>>, <<0, 1, 98>> >>,
     cat16      |-> << <<40, 65, -5>>, <<-25, 120, 5>>, <<0, 5, 95>> >>]

hasMatrix(type) == type \in DOMAIN CAT

makeMatrix(srcWhitepoint, dstWhitepoint, method) ==
    LET catMatrix        == CAT[method]
        inverseCatMatrix == invertMatrix(catMatrix)
        sw               == linearTransform(catMatrix, srcWhitepoint)
        dw               == linearTransform(catMatrix, dstWhitepoint)
        diagonalMatrix   == << <<Rnd(dw[1] * MatScale, sw[1]), 0, 0>>,
                               <<0, Rnd(dw[2] * MatScale, sw[2]), 0>>,
                               <<0, 0, Rnd(dw[3] * MatScale, sw[3])>> >>
        matrix           == multiplyMatrices(diagonalMatrix, catMatrix)
    IN  multiplyMatrices(inverseCatMatrix, matrix)

\* `from${srcObserver}${srcIlluminant}To${dstObserver}${dstIlluminant}`
cacheKey(src, dst) ==
    "from" \o OrDefault(src.observer, "2") \o src.illuminant
           \o "To" \o OrDefault(dst.observer, "2") \o dst.illuminant



\* The matrix getMatrix computes when the key is not in the cache (lines
\* 78-80); CAT[method] is undefined for an unregistered method and
\* invertMatrix(undefined) throws.
getMatrixThrows(src, dst, method) ==
    \/ getWhitepointThrows(src)
    \/ getWhitepointThrows(dst)
    \/ ~hasMatrix(method)

\* Every meta whitepoint the tables resolve, and the matrix of every pair
\* of them under every registered method, evaluated once.
ResolvableMetas ==
    { m \in [illuminant : {"D50", "D60", "D65", Undefined},
             observer : {"2", "10", Undefined}] : ~getWhitepointThrows(m) }

MatrixTable ==
    [src \in ResolvableMetas, dst \in ResolvableMetas, method \in DOMAIN CAT |->
        makeMatrix(getWhitepoint(src), getWhitepoint(dst), method)]

computeMatrix(src, dst, method) == MatrixTable[src, dst, method]

getMatrixReplacing(c, src, dst, method) ==
    LET key == cacheKey(src, dst)
    IN  IF getMatrixThrows(src, dst, method)
          THEN IF key \in DOMAIN c THEN <<Returned("matrix", c[key]), c>> ELSE <<Thrown, c>>
          ELSE LET adaptMatrix == computeMatrix(src, dst, method)
               IN  <<Returned("matrix", adaptMatrix),
                     [k \in DOMAIN c \cup {key} |->
                         IF k = key THEN adaptMatrix ELSE c[k]]>>

\* getMatrix as a step on the cache: <<returned, cache'>>.
getMatrix(c, src, dst, method) ==
    LET key == cacheKey(src, dst)
    IN  IF key \in DOMAIN c
          THEN <<Returned("matrix", c[key]), c>>
          ELSE IF getMatrixThrows(src, dst, method)
                 THEN <<Thrown, c>>
                 ELSE LET adaptMatrix == computeMatrix(src, dst, method)
                      IN  <<Returned("matrix", adaptMatrix),
                            [k \in DOMAIN c \cup {key} |->
                                IF k = key THEN adaptMatrix ELSE c[k]]>>

\* adapt(values, srcIlluminant, dstIlluminant, method): the metas carry no
\* observer.
adapt(c, values, srcIlluminant, dstIlluminant, method) ==
    LET got == getMatrix(c, [illuminant |-> srcIlluminant, observer |-> Undefined],
                            [illuminant |-> dstIlluminant, observer |-> Undefined], method)
    IN  IF got[1].kind = "throw"
          THEN got
          ELSE <<Returned("vector", linearTransform(got[1].value, values)), got[2]>>

---------------------------------------------------------------------------
(* ColorUtils.js: the hex colour grammar and parser.  A string is a        *)
(* sequence of one-character strings.                                      *)

LowerDigits == <<"0", "1", "2", "3", "4", "5", "6", "7", "8", "9",
                 "a", "b", "c", "d", "e", "f">>
UpperDigits == <<"0", "1", "2", "3", "4", "5", "6", "7", "8", "9",
                 "A", "B", "C", "D", "E", "F">>

\* [0-9A-F] under the i flag.
isHexDigit(c) == \E i \in 1..16 : LowerDigits[i] = c \/ UpperDigits[i] = c

hexDigitValue(c) == (CHOOSE i \in 1..16 : LowerDigits[i] = c \/ UpperDigits[i] = c) - 1

\* String.prototype.replace('#', ''): the first '#' is removed, wherever it is.
RECURSIVE replaceHash(_)
replaceHash(str) ==
    IF str = <<>> THEN <<>>
    ELSE IF Head(str) = "#" THEN Tail(str)
    ELSE <<Head(str)>> \o replaceHash(Tail(str))

\* /(^[0-9A-F]{3,4}$)|(^[0-9A-F]{6}$)|(^[0-9A-F]{8}$)/i.test(hex.replace('#', ''))
isHexColor(hex) ==
    LET h == replaceHash(hex)
    IN  /\ Len(h) \in {3, 4, 6, 8}
        /\ \A i \in 1..Len(h) : isHexDigit(h[i])

\* parseInt(str, 16) of a string without sign, whitespace or 0x prefix: the
\* value of the longest prefix of hex digits, NaN when that prefix is empty.
RECURSIVE parseHexPrefix(_, _)
parseHexPrefix(str, acc) ==
    IF str = <<>> \/ ~isHexDigit(Head(str)) THEN acc
    ELSE parseHexPrefix(Tail(str), 16 * acc + hexDigitValue(Head(str)))

parseInt16(str) ==
    IF str = <<>> \/ ~isHexDigit(Head(str)) THEN NaN ELSE N(parseHexPrefix(str, 0))

\* An Rgb channel or alpha in [0, 1] is scaled by RgbScale, which both 255
\* and 100 divide: n / 255 and every two-decimal value are exact.
RgbScale == 255 * 20

\* byte / 255
byteToUnit(n) == IF n.nan THEN NaN ELSE N(n.v * (RgbScale \div 255))

\* +x.toFixed(2), the only precision a caller (blend) asks for
toFixed2(x) ==
    IF x.nan THEN NaN
    ELSE N(Rnd(x.v * 100, RgbScale) * (RgbScale \div 100))

\* hexToRgba(hex, digits): <<red, green, blue, alpha>>, or Thrown for a
\* length other than 3, 4, 6, 8.  digits is 0 for null.
hexToRgba(hex0, digits) ==
    LET hex == replaceHash(hex0)
        len == Len(hex)
        pair(i) == IF len \in {3, 4}
                     THEN IF i <= len THEN <<hex[i], hex[i]>> ELSE <<"f", "f">>
                     ELSE IF 2 * i <= len THEN <<hex[2 * i - 1], hex[2 * i]>>
                                          ELSE <<"f", "f">>
        scaled(i) == LET x == byteToUnit(parseInt16(pair(i)))
                     IN  IF digits > 0 THEN toFixed2(x) ELSE x
    IN  IF len \in {3, 4, 6, 8}
          THEN Returned("rgba", [i \in 1..4 |-> scaled(i)])
          ELSE Thrown

\* new Rgb(red, green, blue, alpha): a RangeError when a component is > 1.
One == N(RgbScale)

RgbThrows(red, green, blue, alpha) ==
    NumGt(red, One) \/ NumGt(green, One) \/ NumGt(blue, One) \/ NumGt(alpha, One)

Rgb(red, green, blue, alpha) == [r |-> red, g |-> green, b |-> blue, alpha |-> alpha]

\* Color.fromHex(hex, digits) = new Rgb(...hexToRgba(hex, digits))
fromHex(hex, digits) ==
    LET rgba == hexToRgba(hex, digits)
    IN  IF rgba.kind = "throw" THEN Thrown
        ELSE LET v == rgba.value
             IN  IF RgbThrows(v[1], v[2], v[3], v[4]) THEN Thrown
                 ELSE Returned("rgb", Rgb(v[1], v[2], v[3], v[4]))

---------------------------------------------------------------------------
(* Color.js: blend.  Rgb objects live in a store, a sequence indexed by    *)
(* reference: the caller's objects first, the objects a call constructs    *)
(* appended behind them.  An argument of blend is a reference to one of    *)
(* the caller's objects or a hex string.                                   *)

Ref(i) == [kind |-> "ref", ref |-> i]
Str(hex) == [kind |-> "string", hex |-> hex]

\* sourceColor * sourceAlpha + backdropColor * backdropAlpha * (1 - sourceAlpha)
fnBlend(sourceColor, sourceAlpha, backdropColor, backdropAlpha) ==
    IF sourceColor.nan \/ sourceAlpha.nan \/ backdropColor.nan \/ backdropAlpha.nan
      THEN NaN
      ELSE N(Rnd(sourceColor.v * sourceAlpha.v, RgbScale)
             + Rnd(Rnd(backdropColor.v * backdropAlpha.v, RgbScale)
                   * (RgbScale - sourceAlpha.v), RgbScale))

\* Lines 1277-1280: the four assignments to result.  r, g and b each read
\* their own channel and the two alphas, and alpha is assigned last, so the
\* outcome is the same when color and result are one object.
blendStep(result, color) ==
    Rgb(fnBlend(color.r, color.alpha, result.r, result.alpha),
        fnBlend(color.g, color.alpha, result.g, result.alpha),
        fnBlend(color.b, color.alpha, result.b, result.alpha),
        One)

\* Line 1270: the object the argument c denotes, as <<store, reference>>:
\* the caller's object, or a new object parsed from the string; the
\* reference is -1 when fromHex throws.
parsedColor(store, parsed) ==
    IF parsed.kind = "throw" THEN <<store, -1>>
    ELSE <<Append(store, parsed.value), Len(store) + 1>>

argColor(store, c) ==
    IF c.kind = "string" THEN parsedColor(store, fromHex(c.hex, 2))
    ELSE <<store, c.ref>>

\* Lines 1272-1280: result is the reference the variable result holds, 0
\* while it is undefined; <<store, result>> after the iteration.
blendOnto(store, result, color) ==
    IF result = 0 THEN <<store, color>>
    ELSE <<[store EXCEPT ![result] = blendStep(store[result], store[color])], result>>

\* The for loop of lines 1267-1281 from index i on: <<store, result>>, or
\* <<store, -1>> when fromHex throws.
RECURSIVE blendLoop(_, _, _, _)
blendContinue(state, colors, i) == blendLoop(state[1], colors, i, state[2])

blendIteration(arg, colors, i, result) ==
    IF arg[2] = -1 THEN arg
    ELSE blendContinue(blendOnto(arg[1], result, arg[2]), colors, i + 1)

blendLoop(store, colors, i, result) ==
    IF i > Len(colors) THEN <<store, result>>
    ELSE blendIteration(argColor(store, colors[i]), colors, i, result)

\* What blend returns and leaves of the caller's n objects, given the
\* <<store, result>> of the loop: the value returned is the reference and
\* the fields of the object it names; with no colour at all the loop does
\* not run and undefined is returned.
blendReturn(done, n) ==
    IF done[2] = -1 THEN <<Thrown, SubSeq(done[1], 1, n)>>
    ELSE IF done[2] = 0 THEN <<Returned("undefined", <<>>), SubSeq(done[1], 1, n)>>
    ELSE <<Returned("rgb", [ref |-> done[2], rgb |-> done[1][done[2]]]),
           SubSeq(done[1], 1, n)>>

\* blend(...colors) on the caller's objects: <<returned, objects'>>.  Line
\* 1262: a single colour is composited onto a new opaque white.
blend(objects, colors) ==
    IF Len(colors) = 1
      THEN blendReturn(blendLoop(Append(objects, Rgb(One, One, One, One)),
                                 <<Ref(Len(objects) + 1)>> \o colors, 1, 0),
                       Len(objects))
      ELSE blendReturn(blendLoop(objects, colors, 1, 0), Len(objects))

\* rgb.blend(...colors) = blend(this, ...colors)
rgbBlend(objects, this, colors) == blend(objects, <<Ref(this)>> \o colors)

---------------------------------------------------------------------------
(* ColorPalette.js: findClosestPalette.  deltaE2000 is a real-valued       *)
(* function the model does not compute: a reference colour is represented  *)
(* by its deltaE to the seed, a natural number, and a palette by the       *)
(* sequence of those of its colours.  Indexes returned are the 0-based     *)
(* ones of the code.                                                       *)

\* minDeltaE = Infinity: distances are never negative, and -1 stands for
\* the value every distance is less than.
Infinity == -1

\* if (deltaE < minDeltaE)
isCloserOrTied(deltaE, minDeltaE) == minDeltaE = Infinity \/ deltaE <= minDeltaE

isCloser(deltaE, minDeltaE) == minDeltaE = Infinity \/ deltaE < minDeltaE

\* 0 < minDeltaE, the second condition of the inner loop
canImprove(minDeltaE) == minDeltaE = Infinity \/ 0 < minDeltaE

\* Lines 159-164: the body of the inner loop at palette p, colour i (1-based
\* here); best is [minDeltaE, colors, baseColorIndex], colors being the index
\* of the palette the variable paletteColors refers to.
visitColor(best, deltaE, p, i) ==
    IF isCloser(deltaE, best.minDeltaE)
      THEN [minDeltaE |-> deltaE, colors |-> p - 1, baseColorIndex |-> i - 1]
      ELSE best

\* Lines 157-165: the inner loop over the palette p from colour i on; it
\* runs while colorIndex < length && 0 < minDeltaE.
RECURSIVE closestInPalette(_, _, _, _)
closestInPalette(colors, p, i, best) ==
    IF i <= Len(colors) /\ canImprove(best.minDeltaE)
      THEN closestInPalette(colors, p, i + 1, visitColor(best, colors[i], p, i))
      ELSE best

\* Lines 156-166: the outer loop from palette p on.
RECURSIVE closestLoop(_, _, _)
closestLoop(palettes, p, best) ==
    IF p > Len(palettes) THEN best
    ELSE closestLoop(palettes, p + 1, closestInPalette(palettes[p], p, 1, best))

findClosestPalette(palettes) ==
    IF Len(palettes) = 0 \/ Len(palettes[1]) = 0
      THEN Thrown
      ELSE Returned("palette",
                    closestLoop(palettes, 1,
                                [minDeltaE |-> Infinity, colors |-> 0,
                                 baseColorIndex |-> -1]))

---------------------------------------------------------------------------
(* GoldenPaletteConstants: the reference palettes.  A reference colour is  *)
(* a Lab object; the synthesizer reads it through toLCHab() only, so the   *)
(* tables hold <<l, c, h>> of each colour, scaled by LchScale (the hue of  *)
(* a grey, whose chroma is 0, is immaterial).                              *)

LchScale == 10 * 10

GOLDEN_PALETTES ==
    << << <<9467, 734, 784>>, <<8679, 1885, 1299>>, <<7209, 3446, 2270>>, <<6179, 4875, 2515>>,
          <<5719, 6916, 3040>>, <<5560, 8143, 3584>>, <<5166, 7786, 3374>>, <<4709, 7440, 3314>>,
          <<4377, 7252, 3377>>, <<3956, 7199, 3537>>, <<7018, 5013, 3037>>, <<5981, 7530, 3003>>,
          <<5434, 8858, 2626>>, <<4445, 9128, 4000>> >>,
       << <<9268, 956, 35460>>, <<8187, 2513, 35556>>, <<7091, 4223, 35851>>, <<6108, 5891, 204>>,
          <<5498, 6896, 610>>, <<5087, 7617, 1163>>, <<4728, 7174, 939>>, <<4258, 6598, 661>>,
          <<3798, 6082, 281>>, <<2970, 5213, 35468>>, <<6922, 5264, 35996>>, <<5853, 7478, 668>>,
          <<5196, 8352, 1708>>, <<4300, 6801, 327>> >>,
       << <<9244, 966, 32131>>, <<8107, 2510, 32122>>, <<6871, 4295, 32191>>, <<5660, 5996, 32252>>,
          <<4800, 7180, 32295>>, <<4066, 8005, 32310>>, <<3769, 7859, 32107>>, <<3356, 7722, 31828>>,
          <<2987, 7564, 31588>>, <<2317, 7346, 31133>>, <<6944, 7395, 32262>>, <<5849, 10309, 32316>>,
          <<5294, 11482, 32260>>, <<4667, 12064, 31614>> >>,
       << <<9249, 806, 30580>>, <<8125, 2025, 30462>>, <<6861, 3506, 30557>>, <<5560, 5149, 30692>>,
          <<4583, 6400, 30787>>, <<3661, 7570, 30866>>, <<3419, 7561, 30805>>, <<3053, 7577, 30739>>,
          <<2745, 7535, 30663>>, <<2199, 7533, 30601>>, <<6529, 6714, 30719>>, <<4802, 10169, 30665>>,
          <<3952, 12236, 30857>>, <<3508, 11915, 31005>> >>,
       << <<9286, 622, 28426>>, <<8183, 1649, 28570>>, <<6978, 2748, 28672>>, <<5749, 3933, 28881>>,
          <<4775, 5003, 29173>>, <<3833, 6091, 29483>>, <<3515, 6052, 29569>>, <<3108, 6038, 29664>>,
          <<2703, 6028, 29786>>, <<1975, 6046, 30041>>, <<6746, 5347, 29002>>, <<5176, 8338, 29581>>,
          <<4625, 9553, 29832>>, <<4332, 10244, 29975>> >>,
       << <<9471, 753, 24789>>, <<8688, 1862, 25388>>, <<7905, 2976, 25676>>, <<7115, 4018, 26142>>,
          <<6548, 4823, 26675>>, <<6043, 5515, 27216>>, <<5562, 5525, 27519>>, <<4927, 5515, 27884>>,
          <<4317, 5528, 28250>>, <<3218, 5671, 28953>>, <<7183, 4372, 27680>>, <<5862, 6673, 28471>>,
          <<5334, 7720, 28876>>, <<4753, 9143, 29541>> >>,
       << <<9536, 812, 23378>>, <<8828, 1962, 23648>>, <<8110, 3054, 23989>>, <<7445, 3894, 24466>>,
          <<6988, 4420, 25114>>, <<6569, 4831, 25852>>, <<6088, 4724, 26117>>, <<5426, 4614, 26526>>,
          <<4811, 4437, 26822>>, <<3634, 4341, 27670>>, <<8233, 3165, 23916>>, <<7469, 4248, 24710>>,
          <<6822, 5025, 25902>>, <<5821, 5367, 27037>> >>,
       << <<9569, 797, 21007>>, <<8953, 1884, 20943>>, <<8332, 2879, 21040>>, <<7735, 3564, 21207>>,
          <<7345, 3825, 21353>>, <<6998, 3846, 21708>>, <<6444, 3596, 21603>>, <<5700, 3264, 21320>>,
          <<4975, 2946, 21067>>, <<3653, 2396, 20252>>, <<9329, 3601, 19717>>, <<9120, 4952, 19640>>,
          <<8357, 4450, 21497>>, <<6877, 3809, 22105>> >>,
       << <<9418, 628, 19428>>, <<8568, 1560, 19054>>, <<7685, 2514, 18887>>, <<6803, 3281, 18703>>,
          <<6167, 3623, 18550>>, <<5567, 3672, 18332>>, <<5106, 3468, 18230>>, <<4527, 3214, 18081>>,
          <<3937, 2925, 18007>>, <<2858, 2465, 17580>>, <<9420, 3071, 17777>>, <<9136, 4983, 17359>>,
          <<8287, 5876, 16824>>, <<6945, 4622, 17778>> >>,
       << <<9531, 773, 14627>>, <<8849, 1870, 14454>>, <<8123, 3089, 14402>>, <<7430, 4452, 14302>>,
          <<6904, 5400, 14210>>, <<6398, 6273, 14070>>, <<5878, 5965, 14063>>, <<5241, 5601, 14050>>,
          <<4628, 5226, 14038>>, <<3469, 4518, 14029>>, <<9190, 3155, 15149>>, <<8619, 5598, 15796>>,
          <<8068, 8184, 14945>>, <<7082, 8075, 14513>> >>,
       << <<9671, 808, 12762>>, <<9166, 2008, 12691>>, <<8622, 3288, 12663>>, <<8083, 4616, 12592>>,
          <<7680, 5641, 12551>>, <<7290, 6538, 12505>>, <<6722, 6234, 12591>>, <<5991, 5872, 12753>>,
          <<5251, 5450, 12925>>, <<3941, 4816, 13294>>, <<9447, 5865, 12553>>, <<9244, 8443, 12503>>,
          <<8957, 11056, 12960>>, <<7874, 9740, 13047>> >>,
       << <<9800, 1020, 11346>>, <<9481, 2500, 11168>>, <<9185, 4168, 11118>>, <<8876, 5716, 10999>>,
          <<8627, 6771, 10912>>, <<8421, 7674, 10844>>, <<7828, 7201, 10711>>, <<7082, 6643, 10553>>,
          <<6294, 6009, 10318>>, <<4950, 5010, 9744>>, <<9696, 6195, 10954>>, <<9603, 8656, 10827>>,
          <<9324, 10015, 11621>>, <<8593, 9467, 11790>> >>,
       << <<9894, 1118, 10562>>, <<9723, 2695, 10325>>, <<9558, 4446, 10156>>, <<9409, 6111, 9990>>,
          <<9307, 7260, 9872>>, <<9213, 8163, 9762>>, <<8712, 7818, 9174>>, <<8096, 7557, 8328>>,
          <<7500, 7506, 7428>>, <<6548, 7902, 5988>>, <<9792, 5632, 10586>>, <<9714, 9691, 10285>>,
          <<9173, 9128, 9718>>, <<8668, 8697, 9093>> >>,
       << <<9756, 1197, 9694>>, <<9367, 3009, 9356>>, <<8995, 4966, 9118>>, <<8671, 6878, 8913>>,
          <<8379, 7910, 8620>>, <<8152, 8323, 8351>>, <<7817, 8278, 7841>>, <<7381, 8260, 7126>>,
          <<7011, 8368, 6505>>, <<6386, 8835, 5478>>, <<9116, 5271, 9414>>, <<8711, 7471, 9049>>,
          <<8224, 8423, 8469>>, <<7631, 8252, 7540>> >>,
       << <<9630, 1064, 8502>>, <<9068, 2680, 8119>>, <<8500, 4542, 7851>>, <<7942, 6423, 7516>>,
          <<7548, 7632, 7215>>, <<7204, 8297, 6830>>, <<6895, 8275, 6481>>, <<6483, 8278, 6038>>,
          <<6085, 8331, 5614>>, <<5478, 8541, 4966>>, <<8622, 4649, 8200>>, <<7653, 6826, 7108>>,
          <<7054, 8350, 6576>>, <<6351, 8872, 5423>> >>,
       << <<9369, 658, 2881>>, <<8605, 2163, 4327>>, <<7754, 3814, 4298>>, <<6974, 5700, 4379>>,
          <<6437, 7263, 4440>>, <<6007, 8712, 4495>>, <<5729, 8513, 4488>>, <<5381, 8242, 4492>>,
          <<5030, 7943, 4476>>, <<4386, 7444, 4464>>, <<7437, 4524, 4309>>, <<6399, 7396, 4456>>,
          <<5669, 9818, 4429>>, <<4848, 8943, 4319>> >>,
       << <<9330, 175, 5549>>, <<8281, 458, 4709>>, <<7095, 772, 4489>>, <<5871, 1156, 4627>>,
          <<4915, 1513, 4570>>, <<3963, 1886, 4584>>, <<3560, 1733, 4430>>, <<3008, 1547, 4298>>,
          <<2456, 1376, 3818>>, <<1835, 1243, 3462>>, <<10000, 1, 8003>>, <<10000, 1, 8003>>,
          <<10000, 1, 8003>>, <<10000, 1, 8003>> >>,
       << <<9827, 0, 15820>>, <<9654, 0, 15820>>, <<9410, 0, 15820>>, <<8918, 0, 15820>>,
          <<7661, 0, 15820>>, <<6511, 0, 15820>>, <<4924, 0, 15820>>, <<4114, 0, 15820>>,
          <<2797, 0, 15820>>, <<1274, 0, 15820>>, <<10000, 1, 8003>>, <<10000, 1, 8003>>,
          <<10000, 1, 8003>>, <<10000, 1, 8003>> >>,
       << <<9428, 146, 24411>>, <<8578, 378, 23295>>, <<7612, 619, 23665>>, <<6616, 893, 23735>>,
          <<5836, 1080, 23804>>, <<5071, 1291, 23803>>, <<4486, 1167, 23666>>, <<3692, 989, 23747>>,
          <<2912, 803, 23872>>, <<1996, 638, 23871>>, <<10000, 1, 8003>>, <<10000, 1, 8003>>,
          <<10000, 1, 8003>>, <<10000, 1, 8003>> >> >>

GOLDEN_DARK_PALETTES ==
    << << <<3782, 1, 8003>>, <<3572, 1, 8003>>, <<3360, 1, 8003>>, <<3016, 1, 8003>>,
          <<2709, 1, 8003>>, <<2352, 0, 8003>>, <<1987, 0, 8003>>, <<1659, 0, 8003>>,
          <<1176, 0, 8003>>, <<546, 0, 8003>> >> >>

GOLDEN_LIGHT_PALETTES ==
    << << <<9827, 1, 8003>>, <<9654, 1, 8003>>, <<9410, 1, 8003>>, <<8918, 1, 8003>>,
          <<8563, 1, 8003>>, <<8097, 1, 8003>>, <<7661, 1, 8003>>, <<7184, 1, 8003>>,
          <<6699, 1, 8003>>, <<6208, 1, 8003>> >> >>

\* The compensation vectors, scaled by CompScale.
CompScale == 10 * 100

LIGHTNESS_COMPENSATION ==
    << 2049, 5125, 8752, 12076, 13914, 15927, 15466, 15098, 15137, 15098,
       12168, 17262, 17872, 16720 >>

CHROMA_COMPENSATION ==
    << 1762, 4214, 7396, 11072, 13896, 16376, 16271, 16542, 17359, 19884,
       12824, 18405, 21719, 23238 >>

CHROMA_COMPENSATION_LIGHT ==
    << 1762, 4214, 7396, 8072, 9896, 11376, 12271, 13542, 14359, 16884 >>

---------------------------------------------------------------------------
(* Color.js: arithmetic on numbers that may be NaN, Rgb.toHex, Rgb.toHsl,  *)
(* Hsl.rotate and Hsl.toRgb.  Hues are whole degrees.                      *)

numAdd(a, b) == IF a.nan \/ b.nan THEN NaN ELSE N(a.v + b.v)
numSub(a, b) == IF a.nan \/ b.nan THEN NaN ELSE N(a.v - b.v)

\* Math.min and Math.max return NaN when an argument is NaN.
numMin(a, b) == IF a.nan \/ b.nan THEN NaN ELSE IF a.v < b.v THEN a ELSE b
numMax(a, b) == IF a.nan \/ b.nan THEN NaN ELSE IF a.v > b.v THEN a ELSE b

\* a * b / d for scaled numbers: d is the scale, or a scaled divisor.
numMulDiv(a, b, d) ==
    IF a.nan \/ b.nan \/ d.nan THEN NaN
    ELSE IF d.v = 0 THEN NaN
    ELSE N(Rnd(a.v * b.v, d.v))

\* a % b of JavaScript: the sign of the dividend.
jsRem(a, b) == IF a < 0 THEN -((-a) % b) ELSE a % b

\* clamp of @webdiscus/math-utils: min > value ? min : value > max ? max : value
clamp(value, min, max) ==
    IF value.nan THEN NaN
    ELSE IF min > value.v THEN N(min)
    ELSE IF value.v > max THEN N(max)
    ELSE value

\* decToHex of @webdiscus/math-utils: two digits, zero-padded; NaN prints
\* as "NaN".
decToHex(n) ==
    IF n.nan THEN <<"N", "a", "N">>
    ELSE <<LowerDigits[((n.v \div 16) % 16) + 1], LowerDigits[(n.v % 16) + 1]>>

toUpperCase(str) ==
    [k \in 1..Len(str) |->
        IF \E d \in 1..16 : LowerDigits[d] = str[k]
          THEN UpperDigits[CHOOSE d \in 1..16 : LowerDigits[d] = str[k]]
          ELSE str[k]]

\* round(255 * x)
round255(x) == IF x.nan THEN NaN ELSE N(Rnd(255 * x.v, RgbScale))

\* Rgb.toHex: the alpha digits are written only when 1 > alpha.
toHexWithAlpha(rgb) ==
    toUpperCase(decToHex(round255(rgb.r)) \o decToHex(round255(rgb.g))
                \o decToHex(round255(rgb.b)) \o decToHex(round255(rgb.alpha)))

toHex(rgb) ==
    toUpperCase(decToHex(round255(rgb.r)) \o decToHex(round255(rgb.g))
                \o decToHex(round255(rgb.b))
                \o (IF NumGt(One, rgb.alpha) THEN decToHex(round255(rgb.alpha))
                                              ELSE <<>>))

Hsl(hue, saturation, lightness, alpha) ==
    [h |-> hue, s |-> saturation, l |-> lightness, alpha |-> alpha]

\* The hue of Rgb.toHsl when delta > 0: round(hue + 360) % 360.
hueOfUnwrapped(r, g, b, maxValue, delta) ==
    IF maxValue = r THEN Rnd(60 * (g - b) + 360 * delta, delta)
    ELSE IF maxValue = g THEN Rnd(60 * (2 * delta + b - r) + 360 * delta, delta)
    ELSE Rnd(60 * (4 * delta + r - g) + 360 * delta, delta)

hueOf(r, g, b, maxValue, delta) ==
    IF maxValue = r THEN Rnd(60 * (g - b) + 360 * delta, delta) % 360
    ELSE IF maxValue = g THEN Rnd(60 * (2 * delta + b - r) + 360 * delta, delta) % 360
    ELSE Rnd(60 * (4 * delta + r - g) + 360 * delta, delta) % 360

hslOf(r, g, b, alpha, maxValue, minValue) ==
    IF maxValue - minValue > 0
      THEN Hsl(N(hueOf(r, g, b, maxValue, maxValue - minValue)),
               IF maxValue + minValue <= RgbScale
                 THEN Rnd((maxValue - minValue) * RgbScale, maxValue + minValue)
                 ELSE Rnd((maxValue - minValue) * RgbScale,
                          2 * RgbScale - maxValue - minValue),
               (maxValue + minValue) \div 2, alpha)
      ELSE Hsl(N(0), 0, (maxValue + minValue) \div 2, alpha)

max3(a, b, c) == IF a >= b /\ a >= c THEN a ELSE IF b >= c THEN b ELSE c
min3(a, b, c) == IF a <= b /\ a <= c THEN a ELSE IF b <= c THEN b ELSE c

\* Rgb.toHsl of a colour whose channels are numbers.
toHsl(rgb) ==
    hslOf(rgb.r.v, rgb.g.v, rgb.b.v, rgb.alpha,
          max3(rgb.r.v, rgb.g.v, rgb.b.v), min3(rgb.r.v, rgb.g.v, rgb.b.v))

\* Hsl.rotate(deg): deg is undefined (NaN in the sum) when the angle list
\* has no such element.
rotate(hsl, deg) ==
    Hsl(IF hsl.h.nan \/ deg.nan THEN NaN ELSE N(jsRem(hsl.h.v + deg.v + 360, 360)),
        hsl.s, hsl.l, hsl.alpha)

RgbCube(sector, C, X) ==
    CASE sector = 0 -> <<C, X, 0>>
      [] sector = 1 -> <<X, C, 0>>
      [] sector = 2 -> <<0, C, X>>
      [] sector = 3 -> <<0, X, C>>
      [] sector = 4 -> <<X, 0, C>>
      [] sector = 5 -> <<C, 0, X>>

\* The tail of Hsl.toRgb: [r, g, b] = RgbCube[floor(H1)](C, X), m = l - C / 2.
hslRgb(cube, m, alpha) ==
    Rgb(clamp(N(cube[1] + m), 0, RgbScale), clamp(N(cube[2] + m), 0, RgbScale),
        clamp(N(cube[3] + m), 0, RgbScale), alpha)

hslChroma(hsl) == Rnd((RgbScale - Abs(2 * hsl.l - RgbScale)) * hsl.s, RgbScale)

hslSector(h, C, l, alpha) ==
    hslRgb(RgbCube(h \div 60, C, Rnd(C * (60 - Abs((h % 120) - 60)), 60)),
           l - Rnd(C, 2), alpha)

\* Hsl.toRgb: RgbCube[floor(H1)] is undefined, and calling it a TypeError,
\* when the hue is NaN or negative.
hslToRgb(hsl) ==
    IF hsl.h.nan THEN Thrown
    ELSE IF jsRem(hsl.h.v, 360) < 0 THEN Thrown
    ELSE Returned("rgb", hslSector(jsRem(hsl.h.v, 360), hslChroma(hsl), hsl.l, hsl.alpha))

---------------------------------------------------------------------------
(* ColorPalette.js: createPalette.  Three real-valued functions are not    *)
(* computed; a call is given their values, an oracle:                      *)
(*   nearest  the <<palette, colour>> of GOLDEN_PALETTES whose deltaE to   *)
(*            the seed is least,                                           *)
(*   lch      <<l, c, h>> of fromHex(seed).toLab().toLCHab(),              *)
(*   gamma    the values <<gamma(r), gamma(g), gamma(b)>> the transfer     *)
(*            function hands to clamp in RgbSpace.applyGamma.              *)
(* Indexing, the walk along the tones, NaN and clamping are computed.      *)

\* array[index] read as a number: NaN when the array has no such element.
at(array, index) == IF index + 1 \in DOMAIN array THEN N(array[index + 1]) ELSE NaN

\* The deltaE of every golden colour for a seed whose nearest one is given.
goldenDeltaE(nearest) ==
    [p \in 1..Len(GOLDEN_PALETTES) |->
        [i \in 1..Len(GOLDEN_PALETTES[p]) |->
            IF <<p - 1, i - 1>> = nearest THEN 1 ELSE 2]]

\* RgbSpace.applyGamma: [clamp(gamma(r), 0, 1), clamp(gamma(g), 0, 1), ...]
applyGamma(gamma) == [k \in 1..3 |-> clamp(N(gamma[k]), 0, RgbScale)]

rgbOf(rgb, alpha) == Rgb(rgb[1], rgb[2], rgb[3], alpha)

\* new LCHab(l, c, h, alpha).toRgb(): toLab, toXyz, the matrix and applyGamma.
\* A NaN among l, c, h reaches X and Z (or Y), hence every channel, and
\* clamp and the Rgb constructor let NaN pass.
lchToRgb(l, c, h, alpha, gamma) ==
    IF l.nan \/ c.nan \/ h.nan THEN Rgb(NaN, NaN, NaN, alpha)
    ELSE rgbOf(applyGamma(gamma), alpha)

lightnessStep == 170

\* color === baseGoldenColor: every golden colour is an object of its own.
isNextGoldenColor(colorIndex, baseGoldenColorIndex) == colorIndex = baseGoldenColorIndex + 1

isBaseGoldenColor(colorIndex, baseGoldenColorIndex) == colorIndex = baseGoldenColorIndex

\* The constants of lines 190-203, as one record.
paletteContext(colorRGB, colorLCH, goldenColors, base, lc, cc, gamma) ==
    [colorRGB |-> colorRGB, colorLCH |-> colorLCH, goldenColors |-> goldenColors,
     baseGoldenColorIndex |-> base,
     isGoldenColorChromaInMiddle |-> 30 * LchScale > goldenColors[6][2],
     deltaLightness |-> goldenColors[base + 1][1] - colorLCH[1],
     deltaChroma |-> goldenColors[base + 1][2] - colorLCH[2],
     deltaHue |-> goldenColors[base + 1][3] - colorLCH[3],
     lightnessCompensation |-> lc, chromaCompensation |-> cc,
     baseLC |-> at(lc, base), baseCC |-> at(cc, base), gamma |-> gamma]

\* Lines 217-219 without Math.min(lightness, maxLightness).
toneLightnessUnbounded(ctx, colorIndex, maxLightness) ==
    clamp(numSub(N(ctx.goldenColors[colorIndex + 1][1]),
                 numMulDiv(at(ctx.lightnessCompensation, colorIndex),
                           N(ctx.deltaLightness), ctx.baseLC)),
          0, 100 * LchScale)

\* Lines 217-219.
toneLightness(ctx, colorIndex, maxLightness) ==
    clamp(numMin(numSub(N(ctx.goldenColors[colorIndex + 1][1]),
                        numMulDiv(at(ctx.lightnessCompensation, colorIndex),
                                  N(ctx.deltaLightness), ctx.baseLC)),
                 maxLightness),
          0, 100 * LchScale)

\* Lines 221-224.
toneChroma(ctx, colorIndex) ==
    numMax(N(0),
           IF ctx.isGoldenColorChromaInMiddle
             THEN N(ctx.goldenColors[colorIndex + 1][2] - ctx.deltaChroma)
             ELSE numSub(N(ctx.goldenColors[colorIndex + 1][2]),
                         numMulDiv(N(ctx.deltaChroma),
                                   numMin(numMulDiv(at(ctx.chromaCompensation, colorIndex),
                                                    N(CompScale), ctx.baseCC),
                                          N((5 * CompScale) \div 4)),
                                   N(CompScale))))

\* Line 216.
toneHue(ctx, colorIndex) ==
    N(jsRem(ctx.goldenColors[colorIndex + 1][3] - ctx.deltaHue + 360 * LchScale,
            360 * LchScale))

\* goldenColors.map(...), lines 205-230, from colorIndex on; maxLightness is
\* the variable the callback reads and assigns, out the colours mapped.
RECURSIVE mapColors(_, _, _, _)
emitTone(ctx, colorIndex, lightness, out) ==
    mapColors(ctx, colorIndex + 1, numMax(numSub(lightness, N(lightnessStep)), N(0)),
              Append(out, lchToRgb(lightness, toneChroma(ctx, colorIndex),
                                   toneHue(ctx, colorIndex), One, ctx.gamma)))

mapColors(ctx, colorIndex, maxLightness, out) ==
    IF colorIndex >= Len(ctx.goldenColors) THEN out
    ELSE IF isBaseGoldenColor(colorIndex, ctx.baseGoldenColorIndex)
      THEN mapColors(ctx, colorIndex + 1,
                     numMax(N(ctx.colorLCH[1] - 170), N(0)),
                     Append(out, ctx.colorRGB))
      ELSE emitTone(ctx, colorIndex,
                    toneLightness(ctx, colorIndex,
                                  IF colorIndex = 10 THEN N(100 * LchScale)
                                                     ELSE maxLightness),
                    out)

\* Lines 191-195 and 232-235: the closest palette is looked for among
\* GOLDEN_PALETTES (findClosestPalette is called without palettes);
\* goldenColors[-1].toLCHab() is a TypeError.
createFromClosest(colorRGB, closest, lc, cc, oracle) ==
    IF closest.kind = "throw" THEN Thrown
    ELSE IF closest.value.baseColorIndex < 0 THEN Thrown
    ELSE Returned("palette",
           [baseColorIndex |-> closest.value.baseColorIndex,
            colors |-> mapColors(paletteContext(colorRGB, oracle.lch,
                                                GOLDEN_PALETTES[closest.value.colors + 1],
                                                closest.value.baseColorIndex,
                                                lc, cc, oracle.gamma),
                                 0, N(100 * LchScale), <<>>)])

createFromRgb(parsed, lc, cc, oracle) ==
    IF parsed.kind = "throw" THEN Thrown
    ELSE createFromClosest(parsed.value, findClosestPalette(goldenDeltaE(oracle.nearest)),
                           lc, cc, oracle)

createPalette(hexColor, palettes, lightnessCompensation, chromaCompensation, oracle) ==
    createFromRgb(fromHex(hexColor, 0), lightnessCompensation, chromaCompensation, oracle)

createColorPalette(hexColor, oracle) ==
    createPalette(hexColor, GOLDEN_PALETTES, LIGHTNESS_COMPENSATION,
                  CHROMA_COMPENSATION, oracle)

createLightPalette(hexColor, oracle) ==
    createPalette(hexColor, GOLDEN_LIGHT_PALETTES, LIGHTNESS_COMPENSATION,
                  CHROMA_COMPENSATION_LIGHT, oracle)

createDarkPalette(hexColor, oracle) ==
    createPalette(hexColor, GOLDEN_DARK_PALETTES, LIGHTNESS_COMPENSATION,
                  CHROMA_COMPENSATION, oracle)

---------------------------------------------------------------------------
(* ColorPalette.js: the harmony rules.  Each palette a call builds has an  *)
(* oracle of its own: oracles[1] for the seed, oracles[k + 1] for the k-th *)
(* rotated colour.                                                         *)

harmonyRules ==
    [mono               |-> <<>>,
     complementary      |-> <<180>>,
     splitComplementary |-> <<150, -150>>,
     analogous          |-> <<30, -30>>,
     triadic            |-> <<120, -120>>,
     tetradic           |-> <<90, 180, 270>>]

\* harmonyRules is an object literal: harmonyRules[rule] also finds what it
\* inherits from Object.prototype.  Of each such member, its length: the
\* arity of a function, undefined (NaN) for Object.prototype itself.
ObjectPrototype ==
    [name \in {"constructor", "hasOwnProperty", "toString", "valueOf", "__proto__"} |->
        IF name \in {"constructor", "hasOwnProperty"} THEN N(1)
        ELSE IF name = "__proto__" THEN NaN
        ELSE N(0)]

\* harmonyRules[rule] || []: the length and the elements of what angles is.
ruleAngles(rule) ==
    IF rule \in DOMAIN harmonyRules
      THEN [length |-> N(Len(harmonyRules[rule])), items |-> harmonyRules[rule]]
    ELSE IF rule \in DOMAIN ObjectPrototype
      THEN [length |-> ObjectPrototype[rule], items |-> <<>>]
    ELSE [length |-> N(0), items |-> <<>>]

\* while (len--) { ... }, lines 281-287, at index i with len still to go:
\* the loop ends when len is 0 or NaN.
RECURSIVE anglesLoop(_, _, _, _, _, _)
pushPalette(hslColor, angles, len, i, palettes, oracles, palette) ==
    IF palette.kind = "throw" THEN Thrown
    ELSE anglesLoop(hslColor, angles, N(len.v - 1), i + 1,
                    Append(palettes, palette.value), oracles)

pushRotated(hslColor, angles, len, i, palettes, oracles, rgb) ==
    IF rgb.kind = "throw" THEN Thrown
    ELSE pushPalette(hslColor, angles, len, i, palettes, oracles,
                     createColorPalette(toHex(rgb.value),
                                        oracles[IF i + 2 <= Len(oracles)
                                                  THEN i + 2 ELSE Len(oracles)]))

anglesLoop(hslColor, angles, len, i, palettes, oracles) ==
    IF len.nan THEN Returned("palettes", palettes)
    ELSE IF len.v = 0 THEN Returned("palettes", palettes)
    ELSE pushRotated(hslColor, angles, len, i, palettes, oracles,
                     hslToRgb(rotate(hslColor, at(angles.items, i))))

anglesFromBase(hslColor, base, angles, oracles) ==
    IF base.kind = "throw" THEN Thrown
    ELSE anglesLoop(hslColor, angles, angles.length, 0, <<base.value>>, oracles)

anglesFromRgb(parsed, hexColor, angles, oracles) ==
    IF parsed.kind = "throw" THEN Thrown
    ELSE anglesFromBase(toHsl(parsed.value), createColorPalette(hexColor, oracles[1]),
                        angles, oracles)

createColorPalettesByAngles(hexColor, angles, oracles) ==
    anglesFromRgb(fromHex(hexColor, 0), hexColor, angles, oracles)

createColorPalettesByRule(hexColor, rule, oracles) ==
    createColorPalettesByAngles(hexColor, ruleAngles(rule), oracles)

---------------------------------------------------------------------------
(* The calls a client makes on ChromaticAdaptation.                        *)

MaxCalls == 2

\* "D60" is defined for the 10 degree observer only; "cat016" is the name
\* the documentation of adapt gives for cat16 and is not registered.
Metas ==
    { [illuminant |-> "D50", observer |-> Undefined],
      [illuminant |-> "D65", observer |-> "2"],
      [illuminant |-> "D65", observer |-> "10"],
      [illuminant |-> "D60", observer |-> Undefined] }
Illuminants == {"D50", "D65", "D60"}
Methods == {"bradford", "cat02", "XYZScaling", "cat016"}
Tristimuli == { <<96, 100, 83>> }

\* The RGB spaces toRgbSpace is called on and with: the illuminant of the
\* whitepoint and the matrices makeTransformMatrices gives for the space
\* (TransformMatrices.test.js), to two decimals.
RgbColorSpaces ==
    [sRGB     |-> [illuminant |-> "D65",
                   toXyz |-> << <<41, 36, 18>>, <<21, 72, 7>>, <<2, 12, 95>> >>,
                   toRgb |-> << <<324, -154, -50>>, <<-97, 188, 4>>, <<6, -20, 106>> >>],
     proPhoto |-> [illuminant |-> "D50",
                   toXyz |-> << <<80, 14, 3>>, <<29, 71, 0>>, <<0, 0, 83>> >>,
                   toRgb |-> << <<135, -26, -5>>, <<-54, 151, 2>>, <<0, 0, 121>> >>]]

NoTransform == [null |-> TRUE]

\* space.getTransformMatrix(type) as a step on the transform properties
spaceTransformAfter(t, space) ==
    IF t[space] = NoTransform
    THEN [t EXCEPT ![space] = [toXyz |-> RgbColorSpaces[space].toXyz,
                               toRgb |-> RgbColorSpaces[space].toRgb]]
    ELSE t

\* What the destructuring of getMatrix and of getWhitepoint finds in a
\* whitepoint that is an array of tristimulus values: no property at all
whitepointAsMeta == [illuminant |-> Undefined, observer |-> Undefined]

\* toRgbSpace as a step: <<returned, cache', transforms'>>
toRgbSpace(c, t, src, dst, rgb, catMethod) ==
    LET got == getMatrix(c, whitepointAsMeta, whitepointAsMeta, catMethod)
        t1  == spaceTransformAfter(t, src)
        t2  == spaceTransformAfter(t1, dst)
    IN  IF got[1].kind = "throw"
          THEN <<Thrown, c, t>>
          ELSE <<Returned("vector",
                     linearTransform(
                         multiplyMatrices(t2[dst].toRgb,
                             multiplyMatrices(got[1].value, t1[src].toXyz)), rgb)),
                 got[2], t2>>

SpaceNames == DOMAIN RgbColorSpaces
Rgbs == { <<100, 100, 100>>, <<0, 0, 100>> }

CaInit ==
    /\ cache = <<>>
    /\ transforms = [space \in SpaceNames |-> NoTransform]
    /\ caCall = NoCall
    /\ caResult = NoResult
    /\ caCalls = 0

CaIdle ==
    /\ cache = <<>>
    /\ transforms = <<>>
    /\ caCall = Idle
    /\ caResult = NoResult
    /\ caCalls = 0

GetMatrix(src, dst, method) ==
    /\ caCall # Idle
    /\ caCalls < MaxCalls
    /\ LET got == getMatrix(cache, src, dst, method)
       IN  /\ caResult' = got[1]
           /\ cache' = got[2]
    /\ caCall' = [op |-> "getMatrix", src |-> src, dst |-> dst, method |-> method]
    /\ caCalls' = caCalls + 1
    /\ UNCHANGED transforms

Adapt(values, srcIlluminant, dstIlluminant, method) ==
    /\ caCall # Idle
    /\ caCalls < MaxCalls
    /\ LET got == adapt(cache, values, srcIlluminant, dstIlluminant, method)
       IN  /\ caResult' = got[1]
           /\ cache' = got[2]
    /\ caCall' = [op |-> "adapt",
                  src |-> [illuminant |-> srcIlluminant, observer |-> Undefined],
                  dst |-> [illuminant |-> dstIlluminant, observer |-> Undefined],
                  method |-> method]
    /\ caCalls' = caCalls + 1
    /\ UNCHANGED transforms

\* RgbColorSpaces[src].toRgbSpace(rgb, dst, method)
ToRgbSpace(src, dst, rgb, method) ==
    /\ caCall # Idle
    /\ caCalls < MaxCalls
    /\ \E got \in {toRgbSpace(cache, transforms, src, dst, rgb, method)} :
           /\ caResult' = got[1]
           /\ cache' = got[2]
           /\ transforms' = got[3]
    /\ caCall' = [op |-> "toRgbSpace", src |-> src, dst |-> dst, rgb |-> rgb,
                  method |-> method]
    /\ caCalls' = caCalls + 1

CaNext ==
    \/ \E src \in Metas, dst \in Metas, method \in Methods : GetMatrix(src, dst, method)
    \/ \E values \in Tristimuli, s \in Illuminants, d \in Illuminants, method \in Methods :
          Adapt(values, s, d, method)
    \/ \E src \in SpaceNames, dst \in SpaceNames, rgb \in Rgbs, method \in Methods :
          ToRgbSpace(src, dst, rgb, method)

---------------------------------------------------------------------------
(* The calls a client makes with a string: isHexColor and Color.fromHex.   *)

MaxHexLen == 8

\* Two digits that print with and without a leading zero, in either case,
\* and the characters that are not digits: the prefix and a letter past F.
HexDigits == {"0", "a", "F"}
NonDigits == {"#", "g"}

DigitStrings(n) == [1..n -> HexDigits]

\* Every string of at most MaxHexLen digits, and the same with one
\* character that is not a digit in any position.
Strings ==
    UNION { DigitStrings(n) \cup
            { [str EXCEPT ![i] = c] :
                str \in DigitStrings(n), i \in 1..n, c \in NonDigits } :
            n \in 0..MaxHexLen }

HexInit ==
    /\ hexIn \in Strings
    /\ hexCall = NoCall
    /\ hexResult = NoResult

HexIdle ==
    /\ hexIn = <<>>
    /\ hexCall = Idle
    /\ hexResult = NoResult

IsHexColor ==
    /\ hexCall = NoCall
    /\ hexCall' = [op |-> "isHexColor"]
    /\ hexResult' = Returned("boolean", isHexColor(hexIn))
    /\ UNCHANGED hexIn

FromHex ==
    /\ hexCall = NoCall
    /\ hexCall' = [op |-> "fromHex"]
    /\ hexResult' = fromHex(hexIn, 0)
    /\ UNCHANGED hexIn

\* Color.fromHex(hex).toHex()
fromHexToHex(hex) ==
    IF fromHex(hex, 0).kind = "throw" THEN Thrown
    ELSE Returned("string", toHex(fromHex(hex, 0).value))

FromHexToHex ==
    /\ hexCall = NoCall
    /\ hexCall' = [op |-> "fromHex.toHex"]
    /\ hexResult' = fromHexToHex(hexIn)
    /\ UNCHANGED hexIn

HexNext == IsHexColor \/ FromHex \/ FromHexToHex

---------------------------------------------------------------------------
(* The calls a client makes with Rgb objects: blend(...colors) and         *)
(* rgb.blend(...colors), and the same call once more on the same objects.  *)

MaxObjs == 2
MaxColors == 3

\* Red or green with half blue, opaque or half transparent.
BlendColours ==
    { Rgb(N(red), N(RgbScale - red), N(RgbScale \div 2), N(a)) :
        red \in {0, RgbScale}, a \in {RgbScale \div 2, RgbScale} }

BlendStrings == { <<"#", "F", "F", "0", "0", "0", "0", "E", "6">> }

BlendArgs ==
    { Ref(i) : i \in 1..MaxObjs } \cup { Str(hex) : hex \in BlendStrings }

ArgLists(min, max) == UNION { [1..n -> BlendArgs] : n \in min..max }

BlendInit ==
    /\ objs \in [1..MaxObjs -> BlendColours]
    /\ blendCall = NoCall
    /\ blendResult = NoResult

BlendIdle ==
    /\ objs = <<>>
    /\ blendCall = Idle
    /\ blendResult = NoResult

Blend(colors) ==
    /\ blendCall = NoCall
    /\ \E got \in {blend(objs, colors)} :
          /\ blendResult' = got[1]
          /\ objs' = got[2]
    /\ blendCall' = [op |-> "blend", colors |-> colors, before |-> objs,
                     first |-> NoResult]

RgbBlend(this, colors) ==
    /\ blendCall = NoCall
    /\ \E got \in {rgbBlend(objs, this, colors)} :
          /\ blendResult' = got[1]
          /\ objs' = got[2]
    /\ blendCall' = [op |-> "rgb.blend", colors |-> <<Ref(this)>> \o colors,
                     before |-> objs, first |-> NoResult]

\* The client repeats the call it made, with the same arguments.
BlendAgain ==
    /\ blendCall.op \in {"blend", "rgb.blend"}
    /\ \E got \in {blend(objs, blendCall.colors)} :
          /\ blendResult' = got[1]
          /\ objs' = got[2]
    /\ blendCall' = [op |-> "again", colors |-> blendCall.colors, before |-> objs,
                     first |-> blendResult]

BlendNext ==
    \/ \E colors \in ArgLists(1, MaxColors) : Blend(colors)
    \/ \E this \in 1..MaxObjs, colors \in ArgLists(0, MaxColors - 1) :
          RgbBlend(this, colors)
    \/ BlendAgain

---------------------------------------------------------------------------
(* The call a client makes with reference palettes: findClosestPalette.    *)

MaxPalettes == 2
MaxTones == 2

\* The distances of the reference colours: the seed itself, and two others.
DeltaEs == {0, 1, 2}

\* A palette of at most MaxTones colours.
ToneRows == UNION { [1..n -> DeltaEs] : n \in 0..MaxTones }

PaletteLists == UNION { [1..n -> ToneRows] : n \in 0..MaxPalettes }

ClosestInit ==
    /\ closestIn \in PaletteLists
    /\ closestCall = NoCall
    /\ closestResult = NoResult

ClosestIdle ==
    /\ closestIn = <<>>
    /\ closestCall = Idle
    /\ closestResult = NoResult

FindClosestPalette ==
    /\ closestCall = NoCall
    /\ closestCall' = [op |-> "findClosestPalette"]
    /\ closestResult' = findClosestPalette(closestIn)
    /\ UNCHANGED closestIn

ClosestNext == FindClosestPalette

---------------------------------------------------------------------------
(* The calls a client makes with a hex seed: createColorPalette,           *)
(* createLightPalette, createDarkPalette and createColorPalettesByRule.    *)

\* Seeds of every form of the grammar: 6 digits with '#', 6 upper-case
\* digits, 3 digits, 4 digits with '#', 8 digits with alpha ff and below.
Seeds ==
    { <<"#", "2", "b", "9", "4", "9", "e">>,
      <<"F", "4", "4", "3", "3", "6">>,
      <<"a", "b", "c">>,
      <<"#", "1", "a", "0", "8">>,
      <<"2", "b", "9", "4", "9", "e", "f", "f">>,
      <<"#", "2", "B", "9", "4", "9", "E", "8", "0">> }

\* Nearest golden colours: in a palette of high chroma (0, reds) and in one
\* whose colour 5 has a chroma below 30 (16), a light tone, colour 5, the
\* first and the last accent tone.
Nearests == { <<p, i>> : p \in {0, 16}, i \in {0, 5, 10, 13} }

SeedLCHs == { <<4000, 2000, 20000>>, <<9000, 6000, 3000>> }

\* Transfer-function values below 0, within [0, 1] and above 1.
Gammas ==
    { <<-(RgbScale \div 10), RgbScale \div 2, RgbScale + RgbScale \div 10>>,
      <<RgbScale \div 5, RgbScale, 0>> }

Oracles == [nearest : Nearests, lch : SeedLCHs, gamma : Gammas]

RuleOracles ==
    [nearest : {<<0, 5>>, <<16, 10>>}, lch : {<<4000, 2000, 20000>>},
     gamma : {<<RgbScale \div 5, RgbScale, 0>>}]

Rules ==
    { "mono", "complementary", "splitComplementary", "analogous", "triadic",
      "tetradic", "shades", "constructor", "toString", "__proto__" }

PaletteInit ==
    /\ palSeed \in Seeds
    /\ palCall = NoCall
    /\ palResult = NoResult

PaletteIdle ==
    /\ palSeed = <<>>
    /\ palCall = Idle
    /\ palResult = NoResult

CreateColorPalette(oracle) ==
    /\ palCall = NoCall
    /\ palCall' = [op |-> "createColorPalette"]
    /\ palResult' = createColorPalette(palSeed, oracle)
    /\ UNCHANGED palSeed

CreateLightPalette(oracle) ==
    /\ palCall = NoCall
    /\ palCall' = [op |-> "createLightPalette"]
    /\ palResult' = createLightPalette(palSeed, oracle)
    /\ UNCHANGED palSeed

CreateDarkPalette(oracle) ==
    /\ palCall = NoCall
    /\ palCall' = [op |-> "createDarkPalette"]
    /\ palResult' = createDarkPalette(palSeed, oracle)
    /\ UNCHANGED palSeed

CreateColorPalettesByRule(rule, oracles) ==
    /\ palCall = NoCall
    /\ palCall' = [op |-> "createColorPalettesByRule", rule |-> rule]
    /\ palResult' = createColorPalettesByRule(palSeed, rule, oracles)
    /\ UNCHANGED palSeed

PaletteNext ==
    \/ \E oracle \in Oracles : CreateColorPalette(oracle)
    \/ \E oracle \in Oracles : CreateLightPalette(oracle)
    \/ \E oracle \in Oracles : CreateDarkPalette(oracle)
    \/ \E rule \in Rules, oracles \in [1..4 -> RuleOracles] :
          CreateColorPalettesByRule(rule, oracles)

---------------------------------------------------------------------------
(* Color.js: Rgb.toHsv, Rgb.toHwb, Hsv.rotate, Hsv.toRgb, and the calls a  *)
(* client makes to convert an Rgb it holds.  Saturation, value, whiteness  *)
(* and blackness are scaled by RgbScale like the channels.                 *)

Hsv(hue, saturation, value, alpha) ==
    [h |-> hue, s |-> saturation, v |-> value, alpha |-> alpha]

Hwb(hue, whiteness, blackness, alpha) ==
    [h |-> hue, w |-> whiteness, b |-> blackness, alpha |-> alpha]

hsvOf(r, g, b, alpha, maxValue, minValue) ==
    IF maxValue - minValue > 0
      THEN Hsv(N(hueOf(r, g, b, maxValue, maxValue - minValue)),
               Rnd((maxValue - minValue) * RgbScale, maxValue), maxValue, alpha)
      ELSE Hsv(N(0), 0, maxValue, alpha)

\* Rgb.toHsv of a colour whose channels are numbers.
toHsv(rgb) ==
    hsvOf(rgb.r.v, rgb.g.v, rgb.b.v, rgb.alpha,
          max3(rgb.r.v, rgb.g.v, rgb.b.v), min3(rgb.r.v, rgb.g.v, rgb.b.v))

\* Rgb.toHwb: the hue is that of toHsl.
toHwb(rgb) ==
    Hwb(toHsl(rgb).h, min3(rgb.r.v, rgb.g.v, rgb.b.v),
        RgbScale - max3(rgb.r.v, rgb.g.v, rgb.b.v), rgb.alpha)

\* Hsv.rotate(deg)
hsvRotate(hsv, deg) ==
    Hsv(IF hsv.h.nan \/ deg.nan THEN NaN ELSE N(jsRem(hsv.h.v + deg.v + 360, 360)),
        hsv.s, hsv.v, hsv.alpha)

\* Hsv.toRgb with C = v * s and m = v - C; the last line is that of
\* Hsl.toRgb.
hsvSector(h, C, v, alpha) ==
    hslRgb(RgbCube(h \div 60, C, Rnd(C * (60 - Abs((h % 120) - 60)), 60)),
           v - C, alpha)

\* Hsv.toRgb: RgbCube[floor(H1)] is undefined, and calling it a TypeError,
\* when the hue is NaN or negative.
hsvToRgb(hsv) ==
    IF hsv.h.nan THEN Thrown
    ELSE IF jsRem(hsv.h.v, 360) < 0 THEN Thrown
    ELSE Returned("rgb", hsvSector(jsRem(hsv.h.v, 360),
                                   Rnd(hsv.v * hsv.s, RgbScale), hsv.v, hsv.alpha))

\* .toHex() of what toRgb returned, when it returned.
hexOf(result) ==
    IF result.kind = "throw" THEN Thrown ELSE Returned("string", toHex(result.value))

\* A rotated colour and what its toRgb() does.
rotated(color, rgb) == Returned("rotated", [color |-> color, toRgb |-> rgb])

\* Channel values: bytes near the ends and the middle of the range, and two
\* values in [0, 1] that are not bytes.
Bytes == {0, 1, 2, 127, 128, 254, 255}

Channels == { byteToUnit(N(b)).v : b \in Bytes } \cup {1263, 3821}

\* Rotation angles on both sides of a full turn.
Degrees == {-720, -400, -360, -359, -90, -1, 0, 1, 90, 359, 360, 400, 720}

ConvInit ==
    /\ convRgb \in { Rgb(N(r), N(g), N(b), One) : r \in Channels, g \in Channels,
                                                  b \in Channels }
    /\ convCall = NoCall
    /\ convResult = NoResult

ConvIdle ==
    /\ convRgb = <<>>
    /\ convCall = Idle
    /\ convResult = NoResult

ToHsv ==
    /\ convCall = NoCall
    /\ convCall' = [op |-> "toHsv"]
    /\ convResult' = Returned("hsv", toHsv(convRgb))
    /\ UNCHANGED convRgb

ToHsl ==
    /\ convCall = NoCall
    /\ convCall' = [op |-> "toHsl"]
    /\ convResult' = Returned("hsl", toHsl(convRgb))
    /\ UNCHANGED convRgb

ToHwb ==
    /\ convCall = NoCall
    /\ convCall' = [op |-> "toHwb"]
    /\ convResult' = Returned("hwb", toHwb(convRgb))
    /\ UNCHANGED convRgb

\* rgb.toHsv().toRgb().toHex()
ToHsvToRgbToHex ==
    /\ convCall = NoCall
    /\ convCall' = [op |-> "toHsv.toRgb.toHex"]
    /\ convResult' = hexOf(hsvToRgb(toHsv(convRgb)))
    /\ UNCHANGED convRgb

\* rgb.toHsl().toRgb().toHex()
ToHslToRgbToHex ==
    /\ convCall = NoCall
    /\ convCall' = [op |-> "toHsl.toRgb.toHex"]
    /\ convResult' = hexOf(hslToRgb(toHsl(convRgb)))
    /\ UNCHANGED convRgb

\* rgb.toHsv().rotate(deg).toRgb()
HsvRotate(deg) ==
    /\ convCall = NoCall
    /\ convCall' = [op |-> "Hsv.rotate", deg |-> deg]
    /\ \E color \in {hsvRotate(toHsv(convRgb), N(deg))} :
          convResult' = rotated(color, hsvToRgb(color))
    /\ UNCHANGED convRgb

\* rgb.toHsl().rotate(deg).toRgb()
HslRotate(deg) ==
    /\ convCall = NoCall
    /\ convCall' = [op |-> "Hsl.rotate", deg |-> deg]
    /\ \E color \in {rotate(toHsl(convRgb), N(deg))} :
          convResult' = rotated(color, hslToRgb(color))
    /\ UNCHANGED convRgb

\* Color.fromHsv(hue, saturation, value, alpha): new Hsl(hue,
\* saturation / 100, value / 100, alpha).toRgb()
fromHsv(hue, saturation, value, alpha) ==
    hslToRgb(Hsl(N(hue), saturation * (RgbScale \div 100),
                 value * (RgbScale \div 100), alpha))

\* The hues and the percentages fromHsv is called with
HsvHues == {0, 60, 200, 359}
Percents == {0, 50, 100}

\* Color.fromHsv(hue, saturation, value)
FromHsv(hue, saturation, value) ==
    /\ convCall = NoCall
    /\ convCall' = [op |-> "fromHsv", hue |-> hue, saturation |-> saturation,
                    value |-> value]
    /\ convResult' = fromHsv(hue, saturation, value, One)
    /\ UNCHANGED convRgb

ConvNext ==
    \/ \E hue \in HsvHues, saturation \in Percents, value \in Percents :
          FromHsv(hue, saturation, value)
    \/ ToHsv
    \/ ToHsl
    \/ ToHwb
    \/ ToHsvToRgbToHex
    \/ ToHslToRgbToHex
    \/ \E deg \in Degrees : HsvRotate(deg)
    \/ \E deg \in Degrees : HslRotate(deg)

---------------------------------------------------------------------------
(* ColorDifference.js: the hue terms of deltaE2000 (step 3).  The chromas  *)
(* C* and the modified hues h' come from Math.sqrt and Math.atan2, which   *)
(* are not computed: a call is given their values.  Chromas are scaled by  *)
(* ChromaScale and hues, in degrees, by DegScale.                          *)

ChromaScale == 10 * 10000
DegScale == 2 * 5

\* 1e-4 > Math.abs(chroma1) || 1e-4 > Math.abs(chroma2)
isLowChromaBoth(chroma1, chroma2) ==
    (ChromaScale \div 10000) > Abs(chroma1) /\ (ChromaScale \div 10000) > Abs(chroma2)

isLowChroma(chroma1, chroma2) ==
    (ChromaScale \div 10000) > Abs(chroma1) \/ (ChromaScale \div 10000) > Abs(chroma2)

\* diffHue > 180 ? diffHue - 360 : diffHue < -180 ? diffHue + 360 : diffHue
dHueDeg(diffHue) ==
    IF diffHue > 180 * DegScale THEN diffHue - 360 * DegScale
    ELSE IF diffHue < -180 * DegScale THEN diffHue + 360 * DegScale
    ELSE diffHue

\* Math.abs(diffHue) <= 180 ? sumHue / 2
\*   : sumHue < 360 ? (sumHue + 360) / 2 : (sumHue - 360) / 2
avgHueDegAdding(diffHue, sumHue) ==
    IF Abs(diffHue) <= 180 * DegScale THEN sumHue \div 2
    ELSE (sumHue + 360 * DegScale) \div 2

avgHueDeg(diffHue, sumHue) ==
    IF Abs(diffHue) <= 180 * DegScale THEN sumHue \div 2
    ELSE IF sumHue < 360 * DegScale THEN (sumHue + 360 * DegScale) \div 2
    ELSE (sumHue - 360 * DegScale) \div 2

\* let dHueDeg = 0, avgHueDeg = sumHue; if (!isLowChroma) { ... }
hueTerms(isLow, diffHue, sumHue) ==
    [isLowChroma |-> isLow,
     dHueDeg |-> IF isLow THEN 0 ELSE dHueDeg(diffHue),
     avgHueDeg |-> IF isLow THEN sumHue ELSE avgHueDeg(diffHue, sumHue)]

\* The hue terms deltaE2000 computes for two colours with these chromas and
\* modified hues.
deltaE2000Hue(chroma1, chroma2, hue1, hue2) ==
    hueTerms(isLowChroma(chroma1, chroma2), hue2 - hue1, hue1 + hue2)

\* Chromas on both sides of 1e-4, and one of a saturated colour.
Chromas == {0, 5, 9, 10, 11, 40 * ChromaScale}

\* Hues that labToHue returns, in even tenths of a degree: every sum halves
\* exactly.  360 is what a tiny negative angle plus 360 rounds to.
Hues == { d * DegScale : d \in {0, 1, 90, 179, 180, 181, 270, 359, 360} }
        \cup {2, 1798, 1802, 2704, 3598}

DeltaInit ==
    /\ deltaIn \in [chroma1 : Chromas, chroma2 : Chromas, hue1 : Hues, hue2 : Hues]
    /\ deltaCall = NoCall
    /\ deltaResult = NoResult

DeltaIdle ==
    /\ deltaIn = <<>>
    /\ deltaCall = Idle
    /\ deltaResult = NoResult

DeltaE2000 ==
    /\ deltaCall = NoCall
    /\ deltaCall' = [op |-> "deltaE2000"]
    /\ deltaResult' = Returned("hue", deltaE2000Hue(deltaIn.chroma1, deltaIn.chroma2,
                                                   deltaIn.hue1, deltaIn.hue2))
    /\ UNCHANGED deltaIn

DeltaNext == DeltaE2000

---------------------------------------------------------------------------
(* The transfer functions of the RGB colour spaces, RgbColorSpaces.js.     *)
(* Channel values are fixed-point with TfScale units to one.  Math.pow is  *)
(* the table PowTable of its values, rounded to the unit, at every         *)
(* argument the calls below reach.                                         *)

TfScale == 1000 * 1000

\* n / d rounded half away from zero, d > 0, without doubling n
RndWide(n, d) ==
    IF n >= 0 THEN (n + d \div 2) \div d ELSE -((-n + d \div 2) \div d)

\* a * b / TfScale for a, b >= 0, in two steps that stay within 32 bits
mulS(a, b) ==
    RndWide(a * (b \div 1000) + RndWide(a * (b % 1000), 1000), 1000)

\* x * TfScale / c for x >= 0, c > 0, in two steps that stay within 32 bits
divS(x, c) ==
    ((x * 1000) \div c) * 1000 + RndWide(((x * 1000) % c) * 1000, c)

sign(value) == IF value > 0 THEN 1 ELSE IF value < 0 THEN -1 ELSE 0

PowTable ==
    { <<"0.45", 18100, 164420>>,
      <<"0.45", 18111, 164465>>,
      <<"0.45", 50000, 259739>>,
      <<"0.45", 55516, 272263>>,
      <<"0.45", 200000, 484689>>,
      <<"0.45", 259720, 545164>>,
      <<"0.45", 500000, 732043>>,
      <<"0.45", 1000000, 1000000>>,
      <<"1.8", 31300, 1959>>,
      <<"1.8", 31664, 2000>>,
      <<"1.8", 39664, 3000>>,
      <<"1.8", 40000, 3046>>,
      <<"1.8", 40450, 3108>>,
      <<"1.8", 40500, 3115>>,
      <<"1.8", 40617, 3131>>,
      <<"1.8", 46538, 4000>>,
      <<"1.8", 50000, 4551>>,
      <<"1.8", 77426, 10000>>,
      <<"1.8", 81000, 10846>>,
      <<"1.8", 81500, 10967>>,
      <<"1.8", 107326, 18000>>,
      <<"1.8", 107657, 18100>>,
      <<"1.8", 189324, 50000>>,
      <<"1.8", 200000, 55189>>,
      <<"1.8", 408962, 200000>>,
      <<"1.8", 500000, 287175>>,
      <<"1.8", 680395, 500000>>,
      <<"1.8", 1000000, 1000000>>,
      <<"1/1.8", 1959, 31302>>,
      <<"1/1.8", 2000, 31664>>,
      <<"1/1.8", 3000, 39664>>,
      <<"1/1.8", 3046, 40001>>,
      <<"1/1.8", 3108, 40451>>,
      <<"1/1.8", 3115, 40502>>,
      <<"1/1.8", 3131, 40617>>,
      <<"1/1.8", 4000, 46538>>,
      <<"1/1.8", 4551, 49997>>,
      <<"1/1.8", 10000, 77426>>,
      <<"1/1.8", 10846, 81000>>,
      <<"1/1.8", 10967, 81500>>,
      <<"1/1.8", 18000, 107326>>,
      <<"1/1.8", 18100, 107657>>,
      <<"1/1.8", 50000, 189324>>,
      <<"1/1.8", 55189, 200000>>,
      <<"1/1.8", 200000, 408962>>,
      <<"1/1.8", 287175, 500000>>,
      <<"1/1.8", 500000, 680395>>,
      <<"1/1.8", 1000000, 1000000>>,
      <<"1/2.2", 0, 0>>,
      <<"1/2.2", 488, 31242>>,
      <<"1/2.2", 490, 31300>>,
      <<"1/2.2", 500, 31589>>,
      <<"1/2.2", 840, 39989>>,
      <<"1/2.2", 861, 40441>>,
      <<"1/2.2", 864, 40505>>,
      <<"1/2.2", 1000, 43288>>,
      <<"1/2.2", 1373, 49997>>,
      <<"1/2.2", 1953, 58681>>,
      <<"1/2.2", 2000, 59319>>,
      <<"1/2.2", 3000, 71324>>,
      <<"1/2.2", 3131, 72723>>,
      <<"1/2.2", 3969, 81001>>,
      <<"1/2.2", 4000, 81288>>,
      <<"1/2.2", 4023, 81500>>,
      <<"1/2.2", 10000, 123285>>,
      <<"1/2.2", 18000, 161043>>,
      <<"1/2.2", 18100, 161449>>,
      <<"1/2.2", 28991, 199999>>,
      <<"1/2.2", 50000, 256226>>,
      <<"1/2.2", 200000, 481157>>,
      <<"1/2.2", 217638, 500000>>,
      <<"1/2.2", 500000, 729740>>,
      <<"1/2.2", 1000000, 1000000>>,
      <<"1/2.4", 3131, 90476>>,
      <<"1/2.4", 3135, 90524>>,
      <<"1/2.4", 3936, 99527>>,
      <<"1/2.4", 4000, 100198>>,
      <<"1/2.4", 7323, 128910>>,
      <<"1/2.4", 7388, 129386>>,
      <<"1/2.4", 10000, 146780>>,
      <<"1/2.4", 18000, 187512>>,
      <<"1/2.4", 18100, 187946>>,
      <<"1/2.4", 33105, 241707>>,
      <<"1/2.4", 50000, 287015>>,
      <<"1/2.4", 200000, 511402>>,
      <<"1/2.4", 214041, 526066>>,
      <<"1/2.4", 500000, 749154>>,
      <<"1/2.4", 1000000, 1000000>>,
      <<"2.2", 0, 0>>,
      <<"2.2", 31250, 488>>,
      <<"2.2", 31300, 490>>,
      <<"2.2", 31589, 500>>,
      <<"2.2", 40000, 840>>,
      <<"2.2", 40450, 861>>,
      <<"2.2", 40500, 864>>,
      <<"2.2", 43288, 1000>>,
      <<"2.2", 50000, 1373>>,
      <<"2.2", 58681, 1953>>,
      <<"2.2", 59319, 2000>>,
      <<"2.2", 71324, 3000>>,
      <<"2.2", 72723, 3131>>,
      <<"2.2", 81000, 3969>>,
      <<"2.2", 81288, 4000>>,
      <<"2.2", 81500, 4023>>,
      <<"2.2", 123285, 10000>>,
      <<"2.2", 161043, 18000>>,
      <<"2.2", 161449, 18100>>,
      <<"2.2", 200000, 28991>>,
      <<"2.2", 256226, 50000>>,
      <<"2.2", 481157, 200000>>,
      <<"2.2", 500000, 217638>>,
      <<"2.2", 729740, 500000>>,
      <<"2.2", 1000000, 1000000>>,
      <<"2.4", 90476, 3131>>,
      <<"2.4", 90521, 3135>>,
      <<"2.4", 99526, 3936>>,
      <<"2.4", 100198, 4000>>,
      <<"2.4", 128910, 7323>>,
      <<"2.4", 129384, 7388>>,
      <<"2.4", 146780, 10000>>,
      <<"2.4", 187512, 18000>>,
      <<"2.4", 187946, 18100>>,
      <<"2.4", 241706, 33105>>,
      <<"2.4", 287015, 50000>>,
      <<"2.4", 290028, 51269>>,
      <<"2.4", 511402, 200000>>,
      <<"2.4", 526066, 214041>>,
      <<"2.4", 527925, 215861>>,
      <<"2.4", 594833, 287441>>,
      <<"2.4", 598551, 291771>>,
      <<"2.4", 602267, 296138>>,
      <<"2.4", 646873, 351533>>,
      <<"2.4", 749154, 500001>>,
      <<"2.4", 1000000, 1000000>>,
      <<"20/9", 164420, 18100>>,
      <<"20/9", 164466, 18111>>,
      <<"20/9", 259739, 50000>>,
      <<"20/9", 272262, 55516>>,
      <<"20/9", 484689, 200000>>,
      <<"20/9", 545164, 259720>>,
      <<"20/9", 732043, 500000>>,
      <<"20/9", 1000000, 1000000>>,
      <<"256/563", 0, 0>>,
      <<"256/563", 490, 31261>>,
      <<"256/563", 491, 31290>>,
      <<"256/563", 500, 31550>>,
      <<"256/563", 843, 40009>>,
      <<"256/563", 864, 40459>>,
      <<"256/563", 866, 40501>>,
      <<"256/563", 1000, 43239>>,
      <<"256/563", 1376, 49993>>,
      <<"256/563", 1953, 58622>>,
      <<"256/563", 2000, 59260>>,
      <<"256/563", 3000, 71257>>,
      <<"256/563", 3131, 72656>>,
      <<"256/563", 3977, 81003>>,
      <<"256/563", 4000, 81216>>,
      <<"256/563", 4031, 81501>>,
      <<"256/563", 10000, 123193>>,
      <<"256/563", 18000, 160939>>,
      <<"256/563", 18100, 161345>>,
      <<"256/563", 29028, 200001>>,
      <<"256/563", 50000, 256102>>,
      <<"256/563", 200000, 481031>>,
      <<"256/563", 217756, 500000>>,
      <<"256/563", 500000, 729658>>,
      <<"256/563", 1000000, 1000000>>,
      <<"563/256", 0, 0>>,
      <<"563/256", 31250, 490>>,
      <<"563/256", 31300, 491>>,
      <<"563/256", 31550, 500>>,
      <<"563/256", 40000, 843>>,
      <<"563/256", 40450, 864>>,
      <<"563/256", 40500, 866>>,
      <<"563/256", 43239, 1000>>,
      <<"563/256", 50000, 1376>>,
      <<"563/256", 58622, 1953>>,
      <<"563/256", 59260, 2000>>,
      <<"563/256", 71257, 3000>>,
      <<"563/256", 72656, 3131>>,
      <<"563/256", 81000, 3977>>,
      <<"563/256", 81216, 4000>>,
      <<"563/256", 81500, 4031>>,
      <<"563/256", 123193, 10000>>,
      <<"563/256", 160939, 18000>>,
      <<"563/256", 161345, 18100>>,
      <<"563/256", 200000, 29028>>,
      <<"563/256", 256102, 50000>>,
      <<"563/256", 481031, 200000>>,
      <<"563/256", 500000, 217756>>,
      <<"563/256", 729658, 499999>>,
      <<"563/256", 1000000, 1000000>> }

pow(x, e) == (CHOOSE t \in PowTable : t[1] = e /\ t[2] = x)[3]

a98RGBtoGamma(value) == sign(value) * pow(Abs(value), "256/563")

a98RGBtoLinear(value) == sign(value) * pow(Abs(value), "563/256")

cieRGBtoGamma(value) == sign(value) * pow(Abs(value), "1/2.2")

cieRGBtoLinear(value) == sign(value) * pow(Abs(value), "2.2")

sRGBtoGamma(value) ==
    IF 31308 < Abs(value) * 10
    THEN sign(value) * (RndWide(1055 * pow(Abs(value), "1/2.4"), 1000) - 55000)
    ELSE RndWide(value * 1292, 100)

sRGBtoLinear(value) ==
    IF 40450 < Abs(value)
    THEN sign(value) * pow(RndWide((Abs(value) + 55000) * 1000, 1055), "2.4")
    ELSE RndWide(value * 100, 1292)

rec2020toGamma(value) ==
    LET alpha == 1099297
        betta == 18053968   \* in units of 1e-9
    IN  IF betta \div 1000 < Abs(value)
        THEN sign(value) * (mulS(pow(Abs(value), "0.45"), alpha) - (alpha - TfScale))
        ELSE RndWide(value * 45, 10)

rec2020toLinear(value) ==
    LET alpha == 1099297
        betta == 18053968   \* in units of 1e-9
    IN  IF (betta * 45) \div 10000 < Abs(value)
        THEN sign(value) * pow(divS(Abs(value) + alpha - TfScale, alpha), "20/9")
        ELSE RndWide(value, 16)

proPhotoToGamma(value) ==
    IF TfScale <= 512 * Abs(value)
    THEN sign(value) * pow(Abs(value), "1/1.8")
    ELSE value * 16

proPhotoToLinear(value) ==
    IF 16 * TfScale < 512 * Abs(value)
    THEN sign(value) * pow(Abs(value), "1.8")
    ELSE RndWide(value, 16)

RgbSpaces ==
    {"a98RGB", "cieRGB", "sRGB", "displayP3", "rec2020", "proPhoto", "wideGamut"}

toGamma(space, value) ==
    CASE space = "a98RGB"    -> a98RGBtoGamma(value)
      [] space = "cieRGB"    -> cieRGBtoGamma(value)
      [] space = "sRGB"      -> sRGBtoGamma(value)
      [] space = "displayP3" -> sRGBtoGamma(value)
      [] space = "rec2020"   -> rec2020toGamma(value)
      [] space = "proPhoto"  -> proPhotoToGamma(value)
      [] space = "wideGamut" -> a98RGBtoGamma(value)

toLinear(space, value) ==
    CASE space = "a98RGB"    -> a98RGBtoLinear(value)
      [] space = "cieRGB"    -> cieRGBtoLinear(value)
      [] space = "sRGB"      -> sRGBtoLinear(value)
      [] space = "displayP3" -> sRGBtoLinear(value)
      [] space = "rec2020"   -> rec2020toLinear(value)
      [] space = "proPhoto"  -> proPhotoToLinear(value)
      [] space = "wideGamut" -> a98RGBtoLinear(value)

\* Linear values on both sides of every toGamma threshold, and negative
LinearValues ==
    {-500000, -10000, -1000, 0, 500, 1000, 1953, 2000, 3000, 3131, 4000,
     10000, 18000, 18100, 50000, 200000, 500000, 1000000}

\* Encoded values on both sides of every toLinear threshold, and negative
EncodedValues ==
    {-500000, -50000, 0, 31250, 31300, 40000, 40450, 40500, 50000, 81000,
     81500, 200000, 500000, 1000000}

TransferInit ==
    /\ tfIn \in [space : RgbSpaces, kind : {"linear"}, value : LinearValues]
            \cup [space : RgbSpaces, kind : {"encoded"}, value : EncodedValues]
    /\ tfCall = NoCall
    /\ tfResult = NoResult

TransferIdle ==
    /\ tfIn = <<>>
    /\ tfCall = Idle
    /\ tfResult = NoResult

\* space.toGamma(value)
ToGamma ==
    /\ tfCall = NoCall
    /\ tfIn.kind = "linear"
    /\ tfCall' = [op |-> "toGamma", step |-> 1]
    /\ tfResult' = Returned("number", toGamma(tfIn.space, tfIn.value))
    /\ UNCHANGED tfIn

\* space.toLinear(value)
ToLinear ==
    /\ tfCall = NoCall
    /\ tfIn.kind = "encoded"
    /\ tfCall' = [op |-> "toLinear", step |-> 1]
    /\ tfResult' = Returned("number", toLinear(tfIn.space, tfIn.value))
    /\ UNCHANGED tfIn

\* space.toLinear(x) for the x that space.toGamma returned
ToLinearOfResult ==
    /\ tfCall = [op |-> "toGamma", step |-> 1]
    /\ tfCall' = [op |-> "toLinear", step |-> 2]
    /\ tfResult' = Returned("number", toLinear(tfIn.space, tfResult.value))
    /\ UNCHANGED tfIn

\* space.toGamma(x) for the x that space.toLinear returned
ToGammaOfResult ==
    /\ tfCall = [op |-> "toLinear", step |-> 1]
    /\ tfCall' = [op |-> "toGamma", step |-> 2]
    /\ tfResult' = Returned("number", toGamma(tfIn.space, tfResult.value))
    /\ UNCHANGED tfIn

TransferNext == ToGamma \/ ToLinear \/ ToLinearOfResult \/ ToGammaOfResult

---------------------------------------------------------------------------
(* ColorPalette.getColorTone, ColorPalette.js, with the luminance and      *)
(* contrastRatio of Color.js.  Luminances and contrast ratios are          *)
(* fixed-point with TfScale units to one.                                  *)

\* A channel of an Rgb, in TfScale units
channelOf(n) == RndWide(n.v * (TfScale \div 100), RgbScale \div 100)

luminance(rgb) ==
    mulS(sRGBtoLinear(channelOf(rgb.r)), 212600)
        + mulS(sRGBtoLinear(channelOf(rgb.g)), 715200)
        + mulS(sRGBtoLinear(channelOf(rgb.b)), 72200)

contrastOf(luminance1, luminance2) ==
    IF luminance1 < luminance2
    THEN divS(luminance2, luminance1)
    ELSE divS(luminance1, luminance2)

contrastRatio(rgb1, rgb2) ==
    contrastOf(luminance(rgb1) + TfScale \div 20, luminance(rgb2) + TfScale \div 20)

isLightToneEither(lightContrast, darkContrast) ==
    LET minimumContrast == 3100000
    IN  lightContrast < minimumContrast \/ darkContrast > lightContrast

isLightTone(lightContrast, darkContrast) ==
    LET minimumContrast == 3100000
    IN  lightContrast < minimumContrast /\ darkContrast > lightContrast

\* color is [type |-> "string", value |-> a string] or
\* [type |-> "rgb", value |-> an Rgb]
getColorTone(color, white, black) ==
    IF color.type = "string" /\ color.value \in {"dark", "light"}
    THEN color.value
    ELSE IF isLightTone(contrastRatio(color.value, white),
                        contrastRatio(color.value, black))
         THEN "light"
         ELSE "dark"

ByteRgb(r, g, b, alpha) ==
    Rgb(byteToUnit(N(r)), byteToUnit(N(g)), byteToUnit(N(b)), alpha)

white == Rgb(One, One, One, One)

black == Rgb(N(0), N(0), N(0), N((87 * RgbScale) \div 100))

Grey(b) == ByteRgb(b, b, b, One)

\* The colours a client may install as white or black
ToneGrounds == {white, black, Grey(128)}

\* Greys on both sides of the 3.1 contrast to white, and saturated colours
ToneColors ==
    { Grey(b) : b \in {0, 64, 128, 146, 147, 148, 160, 255} }
        \cup { ByteRgb(255, 0, 0, One), ByteRgb(0, 255, 0, One),
               ByteRgb(0, 0, 255, One), ByteRgb(255, 255, 0, One) }

ToneInit ==
    /\ toneWhite = white
    /\ toneBlack = black
    /\ toneIn \in [type : {"rgb"}, value : ToneColors]
             \cup [type : {"string"}, value : {"light", "dark"}]
    /\ toneCall = NoCall
    /\ toneResult = NoResult

ToneIdle ==
    /\ toneWhite = <<>>
    /\ toneBlack = <<>>
    /\ toneIn = <<>>
    /\ toneCall = Idle
    /\ toneResult = NoResult

\* ColorPalette.white = color
SetWhite(color) ==
    /\ toneCall = NoCall
    /\ toneWhite' = color
    /\ UNCHANGED <<toneBlack, toneIn, toneCall, toneResult>>

\* ColorPalette.black = color
SetBlack(color) ==
    /\ toneCall = NoCall
    /\ toneBlack' = color
    /\ UNCHANGED <<toneWhite, toneIn, toneCall, toneResult>>

\* ColorPalette.getColorTone(color)
GetColorTone ==
    /\ toneCall = NoCall
    /\ toneCall' = [op |-> "getColorTone"]
    /\ toneResult' = Returned("string", getColorTone(toneIn, toneWhite, toneBlack))
    /\ UNCHANGED <<toneWhite, toneBlack, toneIn>>

ToneNext ==
    \/ \E color \in ToneGrounds : SetWhite(color)
    \/ \E color \in ToneGrounds : SetBlack(color)
    \/ GetColorTone

---------------------------------------------------------------------------
(* RgbSpace.getTransformMatrix and makeTransformMatrices, for the proPhoto *)
(* space.  Matrix entries are fixed-point with MxScale units to one.  The  *)
(* matrices makeTransformMatrices derives from proPhoto's primaries and    *)
(* whitepoint are the ones TransformMatrices.test.js lists for the space.  *)

MxScale == 1000 * TfScale

MaxSpaceCalls == 4

Null == [null |-> TRUE]

Pow10(n) == IF n = 0 THEN 1 ELSE IF n = 1 THEN 10 ELSE IF n = 2 THEN 100
            ELSE IF n = 3 THEN 1000 ELSE IF n = 4 THEN 10000 ELSE 100000

\* value rounded to digits decimals, for digits in 4..9
roundFloat(value, digits) ==
    RndWide(value, Pow10(9 - digits)) * Pow10(9 - digits)

roundMatrix(a, digits) ==
    IF digits < 0 THEN a
    ELSE [i \in 1..3 |-> [j \in 1..3 |-> roundFloat(a[i][j], digits)]]

proPhotoToXyz ==
    << <<797760490, 135185837, 31349350>>,
       <<288071128, 711843218, 85654>>,
       <<0, 0, 825104603>> >>

proPhotoToRgb ==
    << <<1345798973, -255580100, -51106285>>,
       <<-544622494, 1508232741, 20536032>>,
       <<0, 0, 1211967546>> >>

makeTransformMatrices(digits) ==
    IF digits > 3
    THEN [toXyz |-> roundMatrix(proPhotoToXyz, digits),
          toRgb |-> roundMatrix(proPhotoToRgb, digits)]
    ELSE [toXyz |-> proPhotoToXyz, toRgb |-> proPhotoToRgb]

\* The transform property after getTransformMatrix(type, digits).  A cached
\* pair holds both types, so it is kept whatever digits is.
transformAfter(cached, digits) ==
    IF cached = Null THEN makeTransformMatrices(digits) ELSE cached

\* a * v / TfScale for a >= 0 in MxScale units and v >= 0 in TfScale units
mulWide(a, v) == (a \div TfScale) * v + mulS(a % TfScale, v)

\* a . v for a vector of channels in TfScale units; MxScale units to one
spaceTransform(a, v) ==
    [i \in 1..3 |->
        sign(a[i][1]) * mulWide(Abs(a[i][1]), v[1])
            + sign(a[i][2]) * mulWide(Abs(a[i][2]), v[2])
            + sign(a[i][3]) * mulWide(Abs(a[i][3]), v[3])]

clampUnit(value) ==
    IF 0 > value THEN 0 ELSE IF value > TfScale THEN TfScale ELSE value

applyGammaOf(rgb) ==
    [i \in 1..3 |-> clampUnit(proPhotoToGamma(RndWide(rgb[i], 1000)))]

invertGammaOf(rgb) == [i \in 1..3 |-> proPhotoToLinear(rgb[i])]

TransformTypes == {"toXyz", "toRgb"}

\* The digits a client passes: no rounding, and 4, 6 and 8 decimals
DigitsValues == {-1, 4, 6, 8}

\* The vectors toRgb and toXyz are called with: black and, for toXyz, white
Black3 == <<0, 0, 0>>

White3 == <<TfScale, TfScale, TfScale>>

SpaceInit ==
    /\ transform = Null
    /\ spaceCall = NoCall
    /\ spaceResult = NoResult
    /\ spaceCalls = 0

SpaceIdle ==
    /\ transform = <<>>
    /\ spaceCall = Idle
    /\ spaceResult = NoResult
    /\ spaceCalls = 0

\* proPhoto.getTransformMatrix(type, digits)
GetTransformMatrix(type, digits) ==
    /\ spaceCalls < MaxSpaceCalls
    /\ spaceCalls' = spaceCalls + 1
    /\ transform' = transformAfter(transform, digits)
    /\ spaceCall' = [op |-> "getTransformMatrix", type |-> type, digits |-> digits]
    /\ spaceResult' = Returned("matrix", transformAfter(transform, digits)[type])

\* proPhoto.toRgb(xyz), the illuminant left out
SpaceToRgb(xyz) ==
    /\ spaceCalls < MaxSpaceCalls
    /\ spaceCalls' = spaceCalls + 1
    /\ transform' = transformAfter(transform, 8)
    /\ spaceCall' = [op |-> "toRgb", type |-> "toRgb", digits |-> 8]
    /\ spaceResult' = Returned("vector",
           applyGammaOf(spaceTransform(transformAfter(transform, 8).toRgb, xyz)))

\* proPhoto.toXyz(rgb), the illuminant left out
SpaceToXyz(rgb) ==
    /\ spaceCalls < MaxSpaceCalls
    /\ spaceCalls' = spaceCalls + 1
    /\ transform' = transformAfter(transform, 8)
    /\ spaceCall' = [op |-> "toXyz", type |-> "toXyz", digits |-> 8]
    /\ spaceResult' = Returned("vector",
           spaceTransform(transformAfter(transform, 8).toXyz, invertGammaOf(rgb)))

SpaceNext ==
    \/ \E type \in TransformTypes, digits \in DigitsValues :
           GetTransformMatrix(type, digits)
    \/ SpaceToRgb(Black3)
    \/ \E rgb \in {Black3, White3} : SpaceToXyz(rgb)

---------------------------------------------------------------------------
(* ColorMatrix.js: invertMatrix on matrices of whole numbers, the division *)
(* by the determinant done as IEEE doubles do it: 1 / 0 is an infinity,    *)
(* an infinity times zero is NaN, an infinity times anything else is an    *)
(* infinity (its sign is not kept).  Finite entries are scaled by MatScale.*)

Finite(v) == [kind |-> "finite", v |-> v]
Infinite == [kind |-> "Infinity", v |-> 0]
NotANumber == [kind |-> "NaN", v |-> 0]

determinant(a) ==
    a[1][1] * (a[3][3] * a[2][2] - a[3][2] * a[2][3])
        - a[2][1] * (a[3][3] * a[1][2] - a[3][2] * a[1][3])
        + a[3][1] * (a[2][3] * a[1][2] - a[2][2] * a[1][3])

\* invertDetA * c, or -invertDetA * c, for invertDetA = 1 / detA
timesInvertDet(detA, c) ==
    IF detA = 0
    THEN IF c = 0 THEN NotANumber ELSE Infinite
    ELSE Finite(Rnd(c * MatScale, detA))

invertMatrixOf(a) ==
    LET detA == determinant(a)
        inv(c) == timesInvertDet(detA, c)
    IN  << << inv(a[3][3] * a[2][2] - a[3][2] * a[2][3]),
              inv(-(a[3][3] * a[1][2] - a[3][2] * a[1][3])),
              inv(a[2][3] * a[1][2] - a[2][2] * a[1][3]) >>,
           << inv(-(a[3][3] * a[2][1] - a[3][1] * a[2][3])),
              inv(a[3][3] * a[1][1] - a[3][1] * a[1][3]),
              inv(-(a[2][3] * a[1][1] - a[2][1] * a[1][3])) >>,
           << inv(a[3][2] * a[2][1] - a[3][1] * a[2][2]),
              inv(-(a[3][2] * a[1][1] - a[3][1] * a[1][2])),
              inv(a[2][2] * a[1][1] - a[2][1] * a[1][2]) >> >>

\* Rows of whole numbers; the matrices of three of them have determinants
\* of both signs and zero
InvertEntries == {-1, 0, 2}
InvertRows == [1..3 -> InvertEntries]

InvertInit ==
    /\ invertIn \in [1..3 -> InvertRows]
    /\ invertCall = NoCall
    /\ invertResult = NoResult

InvertIdle ==
    /\ invertIn = <<>>
    /\ invertCall = Idle
    /\ invertResult = NoResult

\* invertMatrix(a)
InvertMatrix ==
    /\ invertCall = NoCall
    /\ invertCall' = [op |-> "invertMatrix"]
    /\ invertResult' = Returned("matrix", invertMatrixOf(invertIn))
    /\ UNCHANGED invertIn

InvertNext == InvertMatrix

---------------------------------------------------------------------------
(* ColorUtils.js: getWhitepoint with all four properties of the meta       *)
(* whitepoint, each a value or "undefined"; xy is a pair or null.          *)

IlluminantObserver2Degree ==
    [ICC |-> <<96, 100, 82>>, D50 |-> <<96, 100, 83>>, D65 |-> <<95, 100, 109>>]

IlluminantObserver10Degree ==
    [D50 |-> <<97, 100, 81>>, D65 |-> <<95, 100, 107>>]

Illuminant ==
    [o \in {"2", "10"} |->
        IF o = "2" THEN IlluminantObserver2Degree ELSE IlluminantObserver10Degree]

IlluminantMethod == [IEC_61966 |-> "IEC-61966-2-1", ASTM_E308 |-> "ASTM-E308"]

\* xy is undefined, null or a pair of coordinates scaled by XyScale
Xy(kind, x, y) == [kind |-> kind, x |-> x, y |-> y]
UndefinedXy == Xy("undefined", 0, 0)
NullXy == Xy("null", 0, 0)

\* table[observer][illuminant]: reading a property of undefined throws, a
\* property the table of the observer does not have is undefined
lookup(table, observer, illuminant) ==
    IF observer \notin DOMAIN table THEN Thrown
    ELSE IF illuminant \notin DOMAIN table[observer] THEN Returned("undefined", <<>>)
    ELSE Returned("vector", table[observer][illuminant])

\* const [x, y] = xy ? xy : Chromaticity[observer][illuminant] throws when
\* the right-hand side is undefined
getWhitepointBy(meta) ==
    LET illuminant == OrDefault(meta.illuminant, "D65")
        observer   == OrDefault(meta.observer, "2")
        xy         == IF meta.xy = UndefinedXy THEN NullXy ELSE meta.xy
        method     == OrDefault(meta.method, IlluminantMethod.IEC_61966)
        found      == lookup(Chromaticity, observer, illuminant)
    IN  IF method = IlluminantMethod.ASTM_E308
          THEN lookup(Illuminant, observer, illuminant)
          ELSE IF xy # NullXy
                 THEN Returned("vector", xyToXYZ(xy.x, xy.y))
                 ELSE IF found.kind = "vector"
                        THEN Returned("vector", xyToXYZ(found.value[1], found.value[2]))
                        ELSE Thrown

\* "D51" is no illuminant; "D60" is in the chromaticities of the 10 degree
\* observer only, "ICC" in the illuminants of the 2 degree observer only;
\* there is no 4 degree observer
MetaWhitepoints ==
    [illuminant : {"D50", "D65", "D60", "ICC", "D51", Undefined},
     observer   : {"2", "10", "4", Undefined},
     xy         : {UndefinedXy, NullXy, Xy("pair", 3127, 3290)},
     method     : {Undefined, IlluminantMethod.IEC_61966, IlluminantMethod.ASTM_E308}]

WhitepointInit ==
    /\ wpIn \in MetaWhitepoints
    /\ wpCall = NoCall
    /\ wpResult = NoResult

WhitepointIdle ==
    /\ wpIn = <<>>
    /\ wpCall = Idle
    /\ wpResult = NoResult

\* getWhitepoint(metaWhitepoint)
GetWhitepoint ==
    /\ wpCall = NoCall
    /\ wpCall' = [op |-> "getWhitepoint"]
    /\ wpResult' = getWhitepointBy(wpIn)
    /\ UNCHANGED wpIn

WhitepointNext == GetWhitepoint

---------------------------------------------------------------------------
(* ChromaticAdaptation.js: the registry CAT of adaptation methods, an      *)
(* object literal.  own holds its own properties; proto says whether its   *)
(* prototype is still Object.prototype or was replaced by a matrix, which  *)
(* is what the assignment CAT['__proto__'] = matrix does.  Either          *)
(* prototype has a hasOwnProperty method; an own property of that name     *)
(* hides it, and a matrix cannot be called.                                *)

Registry(own, proto) == [own |-> own, proto |-> proto]

\* CAT.hasOwnProperty(type)
hasMatrixIn(reg, type) ==
    IF "hasOwnProperty" \in DOMAIN reg.own
    THEN Thrown
    ELSE Returned("boolean", type \in DOMAIN reg.own)

\* CAT[method] = matrix
assignMatrix(reg, method, matrix) ==
    IF method = "__proto__"
    THEN Registry(reg.own, "matrix")
    ELSE Registry([k \in DOMAIN reg.own \cup {method} |->
                      IF k = method THEN matrix ELSE reg.own[k]], reg.proto)

\* addMatrix as a step on the registry: <<returned, registry'>>
addMatrix(reg, method, matrix) ==
    IF hasMatrixIn(reg, method) = Returned("boolean", FALSE)
    THEN <<Returned("undefined", <<>>), assignMatrix(reg, method, matrix)>>
    ELSE <<Thrown, reg>>

MaxRegistryCalls == 3

\* Two built-in names, two new ones, and two names of Object.prototype
MethodNames == {"bradford", "cat02", "sharp", "cmccat", "hasOwnProperty", "__proto__"}
NewMatrices == { << <<100, 0, 0>>, <<0, 100, 0>>, <<0, 0, 100>> >>,
                 << <<127, -10, -17>>, <<-84, 188, -4>>, <<3, -8, 105>> >> }

RegistryInit ==
    /\ registry = Registry(CAT, "Object.prototype")
    /\ regCall = NoCall
    /\ regResult = NoResult
    /\ regCalls = 0

RegistryIdle ==
    /\ registry = <<>>
    /\ regCall = Idle
    /\ regResult = NoResult
    /\ regCalls = 0

\* ChromaticAdaptation.addMatrix(method, matrix)
AddMatrix(method, matrix) ==
    /\ regCalls < MaxRegistryCalls
    /\ regCalls' = regCalls + 1
    /\ regCall' = [op |-> "addMatrix", method |-> method]
    /\ regResult' = addMatrix(registry, method, matrix)[1]
    /\ registry' = addMatrix(registry, method, matrix)[2]

\* ChromaticAdaptation.hasMatrix(type)
HasMatrix(type) ==
    /\ regCalls < MaxRegistryCalls
    /\ regCalls' = regCalls + 1
    /\ regCall' = [op |-> "hasMatrix", method |-> type]
    /\ regResult' = hasMatrixIn(registry, type)
    /\ UNCHANGED registry

RegistryNext ==
    \/ \E method \in MethodNames, matrix \in NewMatrices : AddMatrix(method, matrix)
    \/ \E type \in MethodNames : HasMatrix(type)

---------------------------------------------------------------------------
(* ColorPalette.js: the callback of goldenColors.map in createPalette, one *)
(* invocation a step.  walkMax is the variable maxLightness the callback   *)
(* reads and assigns, walkTone what it did with the colour before.         *)

Tone(seed, lightness) == [seed |-> seed, lightness |-> lightness]

\* Seeds of lightness 0, 1, 40, 90 and 100
WalkLCHs == { <<l, 2000, 20000>> : l \in {0, 100, 4000, 9000, 10000} }
WalkBases == {0, 5, 9, 10, 13}
WalkPalettes == {0, 16}

WalkContexts ==
    { paletteContext(Rgb(One, N(0), N(0), One), lch, GOLDEN_PALETTES[p + 1], base,
                     LIGHTNESS_COMPENSATION, CHROMA_COMPENSATION,
                     <<RgbScale \div 5, RgbScale, 0>>) :
        lch \in WalkLCHs, p \in WalkPalettes, base \in WalkBases }

WalkInit ==
    /\ walkCtx \in WalkContexts
    /\ walkIndex = 0
    /\ walkMax = N(100 * LchScale)
    /\ walkTone = Tone(FALSE, NaN)
    /\ walkOut = <<>>

WalkIdle ==
    /\ walkCtx = <<>>
    /\ walkIndex = 0
    /\ walkMax = NaN
    /\ walkTone = Tone(FALSE, NaN)
    /\ walkOut = <<>>

\* The callback on the base golden colour, lines 207-210
WalkSeed ==
    /\ walkCtx # <<>>
    /\ walkIndex < Len(walkCtx.goldenColors)
    /\ isBaseGoldenColor(walkIndex, walkCtx.baseGoldenColorIndex)
    /\ walkMax' = numMax(N(walkCtx.colorLCH[1] - 170), N(0))
    /\ walkOut' = Append(walkOut, walkCtx.colorRGB)
    /\ walkTone' = Tone(TRUE, NaN)
    /\ walkIndex' = walkIndex + 1
    /\ UNCHANGED walkCtx

\* The callback on any other colour, lines 212-229, for the lightness
\* that lines 217-219 assign
walkTo(lightness) ==
    /\ walkMax' = numMax(numSub(lightness, N(lightnessStep)), N(0))
    /\ walkOut' = Append(walkOut,
                         lchToRgb(lightness, toneChroma(walkCtx, walkIndex),
                                  toneHue(walkCtx, walkIndex), One, walkCtx.gamma))
    /\ walkTone' = Tone(FALSE, lightness)

WalkTone ==
    /\ walkCtx # <<>>
    /\ walkIndex < Len(walkCtx.goldenColors)
    /\ ~isBaseGoldenColor(walkIndex, walkCtx.baseGoldenColorIndex)
    /\ walkTo(toneLightness(walkCtx, walkIndex,
                            IF walkIndex = 10 THEN N(100 * LchScale) ELSE walkMax))
    /\ walkIndex' = walkIndex + 1
    /\ UNCHANGED walkCtx

WalkNext == WalkSeed \/ WalkTone

---------------------------------------------------------------------------
(* RectSlider.js: a slider of two axes whose thumb is moved by two Movable *)
(* objects, movableThumb (mousedown on the thumb) and movableArea           *)
(* (mousedown on the root).  Positions are pixels relative to the area the *)
(* thumb moves in (area.x1 = area.y1 = 0).                                  *)

XY(x, y) == [x |-> x, y |-> y]

\* prevValue: null, an object of its own, or the object eventData.value is
PrevValue(kind, x, y) == [kind |-> kind, x |-> x, y |-> y]
NullValue == PrevValue("null", 0, 0)
SameObject == PrevValue("same", 0, 0)
copyOf(value) == PrevValue("copy", value.x, value.y)

\* The object a reference to prevValue reads, eventData.value being value
prevValueOf(prev, value) ==
    IF prev.kind = "same" THEN XY(value.x, value.y) ELSE XY(prev.x, prev.y)

\* Line 17
clampValue(value, min, max) == IF min > value THEN min ELSE IF value > max THEN max ELSE value

\* Lines 26-29, value1 being prevValue
isEqual(prev, value1, value2) ==
    /\ prev.kind # "null"
    /\ value1.x = value2.x
    /\ value1.y = value2.y

\* Math.round(n / d) for d > 0
roundDiv(n, d) == (2 * n + d) \div (2 * d)

\* The fields the constructor and render() assign, lines 48-57 and 84-90,
\* and the bounds init() reads from movableArea.area, lines 109-113
Slider(xMax, yMax, thumb, stepSize, isDiscrete) ==
    [xMin |-> 0, xMax |-> xMax, yMin |-> 0, yMax |-> yMax, step |-> 1,
     isDiscrete |-> isDiscrete,
     thumbWidth |-> thumb, thumbHeight |-> thumb,
     stepSizeX |-> stepSize, stepSizeY |-> stepSize,
     threshold |-> 0,
     endX |-> stepSize * xMax, endY |-> stepSize * yMax]

\* Lines 316-321
getPositionByValue(sl, value) ==
    XY(roundDiv(value.x - sl.xMin, sl.step) * sl.stepSizeX,
       roundDiv(value.y - sl.yMin, sl.step) * sl.stepSizeY)

\* Lines 328-336
getValueByPosition(sl, pos) ==
    XY(clampValue(roundDiv(pos.x, sl.stepSizeX) * sl.step + sl.xMin, sl.xMin, sl.xMax),
       clampValue(roundDiv(pos.y, sl.stepSizeY) * sl.step + sl.yMin, sl.yMin, sl.yMax))

\* Lines 283-309; null >= 0 holds, and null counts as 0 in the difference
getPosition(sl, value, moveEvent) ==
    IF sl.stepSizeX = 1 /\ sl.stepSizeY = 1 THEN XY(moveEvent.x, moveEvent.y)
    ELSE LET valuePos == getPositionByValue(sl, value)
             setPosX == moveEvent.pointer.x - sl.thumbWidth \div 2
                        - (sl.stepSizeX \div 2 - sl.threshold) * moveEvent.direction.x
             setPosY == moveEvent.pointer.y - sl.thumbHeight \div 2
                        - (sl.stepSizeY \div 2 - sl.threshold) * moveEvent.direction.y
             posX == roundDiv(setPosX, sl.stepSizeX) * sl.stepSizeX
             posY == roundDiv(setPosY, sl.stepSizeY) * sl.stepSizeY
             newPosX == IF (valuePos.x - posX) * moveEvent.direction.x > 0
                        THEN valuePos.x ELSE posX
             newPosY == IF (valuePos.y - posY) * moveEvent.direction.y > 0
                        THEN valuePos.y ELSE posY
         IN  XY(clampValue(newPosX, 0, sl.endX), clampValue(newPosY, 0, sl.endY))

\* Movable.js: eventData.x, eventData.y and pos of one Movable
MovableAt(x, y, pos) == [x |-> x, y |-> y, pos |-> pos]

\* Movable.js, lines 67-82: the fields of a Movable just constructed
NewMovable == MovableAt(0, 0, XY(-1, -1))

\* Movable.js, lines 204-212, both axes movable
isMoved(movable) == ~(movable.x = movable.pos.x /\ movable.y = movable.pos.y)

\* Movable.js, lines 249-263
clampPos(sl, movable, pos) ==
    MovableAt(clampValue(pos.x, 0, sl.endX), clampValue(pos.y, 0, sl.endY), movable.pos)

\* Movable.js, lines 449-462: the Movable after draw(); the thumb is then
\* at its pos
draw(movable) == MovableAt(movable.x, movable.y, XY(movable.x, movable.y))

\* The slider: eventData.value, prevValue, the two Movable objects, where
\* the thumb is drawn, and what the call returned
SliderState(value, prev, movables, thumb, returned) ==
    [value |-> value, prev |-> prev, movables |-> movables, thumb |-> thumb,
     returned |-> returned]

\* Movable.js, lines 228-241, called on movableArea
movableSetPos(sl, s, pos) ==
    LET clamped == clampPos(sl, s.movables.area, pos)
    IN  IF ~isMoved(clamped)
        THEN SliderState(s.value, s.prev, [s.movables EXCEPT !.area = clamped],
                         s.thumb, FALSE)
        ELSE SliderState(s.value, s.prev, [s.movables EXCEPT !.area = draw(clamped)],
                         XY(clamped.x, clamped.y), TRUE)

\* Lines 248-261: lines 251-252 assign to the fields of the object
\* eventData.value, which prevValue reads too when it is that object
setValue(sl, s, value) ==
    LET assigned == XY(clampValue(value.x, sl.xMin, sl.xMax),
                       clampValue(value.y, sl.yMin, sl.yMax))
    IN  IF isEqual(s.prev, prevValueOf(s.prev, assigned), assigned)
        THEN SliderState(assigned, s.prev, s.movables, s.thumb, FALSE)
        ELSE LET moved == movableSetPos(sl, SliderState(assigned, copyOf(assigned),
                                                         s.movables, s.thumb, TRUE),
                                        getPositionByValue(sl, assigned))
             IN  [moved EXCEPT !.returned = TRUE]

\* Lines 269-276
setPos(sl, s, pos) ==
    LET value == getValueByPosition(sl, pos)
    IN  movableSetPos(sl, SliderState(value, copyOf(value), s.movables, s.thumb, FALSE), pos)

\* Lines 154-174 on the 'move' event of the Movable m, followed by what
\* Movable.onDraw does with the event, Movable.js lines 441-442
onMove(sl, s, m, moveEvent) ==
    LET pos == getPosition(sl, s.value, moveEvent)
        value == getValueByPosition(sl, pos)
    IN  IF ~isEqual(s.prev, prevValueOf(s.prev, s.value), value)
        THEN SliderState(value, SameObject,
                         [s.movables EXCEPT ![m] = draw(MovableAt(pos.x, pos.y, @.pos))],
                         pos, TRUE)
        ELSE SliderState(s.value, copyOf(value), s.movables, s.thumb, FALSE)

\* Two sliders of values 0..2 by 0..1: one whose step is 10 pixels, one
\* whose step is 1 pixel, each discrete or not
Sliders ==
    { Slider(2, 1, 10, stepSize, isDiscrete) :
        stepSize \in {1, 10}, isDiscrete \in BOOLEAN }

\* Values inside and outside the range of the sliders
SliderValues == { XY(x, y) : x \in -1..3, y \in -1..2 }

\* Centres of the places of the thumb
Pointers(sl) ==
    { XY(sl.thumbWidth \div 2 + i * sl.stepSizeX, sl.thumbHeight \div 2 + j * sl.stepSizeY) :
        i \in 0..2, j \in 0..1 }

Directions == { XY(dx, dy) : dx \in {-1, 0, 1}, dy \in {-1, 0, 1} } \ {XY(0, 0)}

sliderNow == SliderState(slValue, slPrev, slMovables, slThumb, FALSE)

sliderBecomes(s) ==
    /\ slValue' = s.value
    /\ slPrev' = s.prev
    /\ slMovables' = s.movables
    /\ slThumb' = s.thumb

\* new RectSlider(elm, {x, y, ...}), lines 48-68: the first setValue finds
\* prevValue null
SliderInit ==
    /\ slider \in Sliders
    /\ \E value \in {XY(0, 0), XY(1, 1)} :
         LET s == setValue(slider,
                           SliderState(XY(0, 0), NullValue,
                                       [thumb |-> NewMovable, area |-> NewMovable],
                                       XY(0, 0), FALSE),
                           value)
         IN  /\ slValue = s.value
             /\ slPrev = s.prev
             /\ slMovables = s.movables
             /\ slThumb = s.thumb
    /\ slDrag = "none"
    /\ slCall = NoCall
    /\ slResult = NoResult
    /\ slOps = 0

SliderIdle ==
    /\ slider = <<>>
    /\ slValue = XY(0, 0)
    /\ slPrev = NullValue
    /\ slMovables = <<>>
    /\ slThumb = XY(0, 0)
    /\ slDrag = "none"
    /\ slCall = Idle
    /\ slResult = NoResult
    /\ slOps = 0

\* Operations on the slider are counted up to MaxSliderOps
MaxSliderOps == 4

SliderOp ==
    /\ slCall # Idle
    /\ slOps < MaxSliderOps
    /\ slOps' = slOps + 1

SliderCall(op, arg) == [op |-> op, arg |-> arg]

\* slider.setValue(value)
SetValue(value) ==
    /\ SliderOp
    /\ LET s == setValue(slider, sliderNow, value)
       IN  /\ sliderBecomes(s)
           /\ slResult' = Returned("boolean", s.returned)
    /\ slCall' = SliderCall("setValue", value)
    /\ UNCHANGED <<slider, slDrag>>

\* slider.setPos(pos)
SetPos(pos) ==
    /\ SliderOp
    /\ LET s == setPos(slider, sliderNow, pos)
       IN  /\ sliderBecomes(s)
           /\ slResult' = Returned("boolean", s.returned)
    /\ slCall' = SliderCall("setPos", pos)
    /\ UNCHANGED <<slider, slDrag>>

\* stepLeft, stepRight, stepUp and stepDown, lines 214-232: 'change' is
\* dispatched when setValue returns true
StepBy(dx, dy) ==
    /\ SliderOp
    /\ LET value == XY(slValue.x + dx * slider.step, slValue.y + dy * slider.step)
           s == setValue(slider, sliderNow, value)
       IN  /\ sliderBecomes(s)
           /\ slResult' = Returned("change", s.returned)
           /\ slCall' = SliderCall("step", value)
    /\ UNCHANGED <<slider, slDrag>>

\* mousedown on the root: Movable.onMoveStart of movableArea puts the
\* place of the thumb into its eventData (Movable.js lines 331-338) and
\* dispatches 'movestart', which onClick handles, lines 129-140
Click(pointer) ==
    /\ SliderOp
    /\ slDrag = "none"
    /\ LET started == SliderState(slValue, slPrev,
                                  [slMovables EXCEPT !.area = MovableAt(slThumb.x, slThumb.y, @.pos)],
                                  slThumb, FALSE)
           pos == XY(pointer.x - slider.thumbWidth \div 2,
                     pointer.y - slider.thumbHeight \div 2)
           value == getValueByPosition(slider, pos)
           s == IF slider.isDiscrete THEN setValue(slider, started, value)
                ELSE setPos(slider, started, pos)
       IN  /\ sliderBecomes(s)
           /\ slResult' = Returned("change", s.returned)
           /\ slCall' = SliderCall("click", value)
    /\ slDrag' = "area"
    /\ UNCHANGED slider

\* mousedown on the thumb: Movable.onMoveStart of movableThumb, and
\* onMoveStart, lines 146-148
ThumbStart ==
    /\ SliderOp
    /\ slDrag = "none"
    /\ slMovables' = [slMovables EXCEPT !.thumb = MovableAt(slThumb.x, slThumb.y, @.pos)]
    /\ slDrag' = "thumb"
    /\ slCall' = SliderCall("thumbstart", XY(0, 0))
    /\ slResult' = NoResult
    /\ UNCHANGED <<slider, slValue, slPrev, slThumb>>

\* mousemove while dragging and the animation frame it asks for:
\* Movable.onMove (Movable.js lines 391-421) of the Movable that is
\* dragged, then Movable.onDraw and onMove
DragMove(pointer, direction) ==
    /\ SliderOp
    /\ slDrag # "none"
    /\ LET placed == clampPos(slider, slMovables[slDrag],
                          XY(pointer.x - slider.thumbWidth \div 2,
                             pointer.y - slider.thumbHeight \div 2))
           moveEvent == [x |-> placed.x, y |-> placed.y, pointer |-> pointer,
                         direction |-> direction]
           heard == SliderState(slValue, slPrev, [slMovables EXCEPT ![slDrag] = placed],
                                slThumb, FALSE)
           s == IF isMoved(placed) THEN onMove(slider, heard, slDrag, moveEvent) ELSE heard
       IN  /\ sliderBecomes(s)
           /\ slResult' = Returned("change", s.returned)
           /\ slCall' = SliderCall("move", XY(placed.x, placed.y))
    /\ UNCHANGED <<slider, slDrag>>

\* mouseup: Movable.onMoveEnd and onMoveEnd, lines 180-182
DragEnd ==
    /\ SliderOp
    /\ slDrag # "none"
    /\ slDrag' = "none"
    /\ slCall' = SliderCall("moveend", XY(0, 0))
    /\ slResult' = NoResult
    /\ UNCHANGED <<slider, slValue, slPrev, slMovables, slThumb>>

SliderNext ==
    \/ \E value \in SliderValues : SetValue(value)
    \/ \E pos \in Pointers(slider) : SetPos(XY(pos.x - slider.thumbWidth \div 2,
                                              pos.y - slider.thumbHeight \div 2))
    \/ \E d \in {XY(-1, 0), XY(1, 0), XY(0, -1), XY(0, 1)} : StepBy(d.x, d.y)
    \/ \E pointer \in Pointers(slider) : Click(pointer)
    \/ ThumbStart
    \/ \E pointer \in Pointers(slider), direction \in Directions :
         DragMove(pointer, direction)
    \/ DragEnd

---------------------------------------------------------------------------
(* Movable.js: one Movable of orient 'horizontal' (axisX only) in a        *)
(* container whose client offset is 0, with the browser's side of it: the  *)
(* mouse button, the listeners on document, and the animation frame that   *)
(* requestAnimationFrame has queued.                                        *)

\* area.width of the container, lines 166-168
AreaWidth == 2

ClientXs == 0..AreaWidth
MovementXs == {-1, 0, 1}

\* Events are logged up to MaxEvents
MaxEvents == 5

\* 'movestart' whose subscriber called preventDefault is logged as
\* "cancelled"
EventTypes == {"movestart", "cancelled", "move", "moveend"}

\* Lines 50-106 and the constructor, lines 112-134, without and with the
\* option x, which calls setPos (lines 228-241)
MovableInit ==
    /\ mvEnabled = TRUE
    /\ mvMouseDown = TRUE
    /\ mvListening = FALSE
    /\ mvRequestId = FALSE
    /\ mvFrame = FALSE
    /\ mvDelta = 0
    /\ \E x \in {-1, 1} :
         /\ mvX = IF x < 0 THEN 0 ELSE x
         /\ mvPos = x
         /\ mvTarget = IF x < 0 THEN 0 ELSE x
    /\ mvPressed = FALSE
    /\ mvEvents = <<>>

MovableIdle ==
    /\ mvEnabled = FALSE
    /\ mvMouseDown = FALSE
    /\ mvListening = FALSE
    /\ mvRequestId = FALSE
    /\ mvFrame = FALSE
    /\ mvDelta = 0
    /\ mvX = 0
    /\ mvPos = 0
    /\ mvTarget = 0
    /\ mvPressed = FALSE
    /\ mvEvents = <<"idle">>

\* Lines 470-478
dispatched(type) ==
    /\ Len(mvEvents) < MaxEvents
    /\ mvEvents' = Append(mvEvents, type)

\* The Movable exists
MovableLives == mvEvents # <<"idle">>

\* Lines 185-187
Enable ==
    /\ MovableLives
    /\ mvEnabled' = TRUE
    /\ UNCHANGED <<mvMouseDown, mvListening, mvRequestId, mvFrame, mvDelta, mvX, mvPos,
                   mvTarget, mvPressed, mvEvents>>

\* Lines 193-195
Disable ==
    /\ MovableLives
    /\ mvEnabled' = FALSE
    /\ UNCHANGED <<mvMouseDown, mvListening, mvRequestId, mvFrame, mvDelta, mvX, mvPos,
                   mvTarget, mvPressed, mvEvents>>

\* Lines 484-488
Destroy ==
    /\ MovableLives
    /\ mvMouseDown' = FALSE
    /\ mvListening' = FALSE
    /\ UNCHANGED <<mvEnabled, mvRequestId, mvFrame, mvDelta, mvX, mvPos, mvTarget,
                   mvPressed, mvEvents>>

\* The button goes down on the event target; lines 320-359 when the
\* listener of 'mousedown' is there
OnMoveStart(clientX, cancelled) ==
    /\ MovableLives
    /\ ~mvPressed
    /\ mvPressed' = TRUE
    /\ IF mvMouseDown /\ mvEnabled
       THEN /\ mvDelta' = clientX - mvTarget
            /\ mvX' = clientX - (clientX - mvTarget)
            /\ dispatched(IF cancelled THEN "cancelled" ELSE "movestart")
            /\ mvListening' = (mvListening \/ ~cancelled)
       ELSE UNCHANGED <<mvDelta, mvX, mvEvents, mvListening>>
    /\ UNCHANGED <<mvEnabled, mvMouseDown, mvRequestId, mvFrame, mvPos, mvTarget>>

\* The pointer moves while the listener of 'mousemove' is on document,
\* lines 391-421
OnMove(clientX, movementX) ==
    /\ MovableLives
    /\ mvListening
    /\ IF sign(movementX) = 0
       THEN /\ mvFrame' = (mvFrame /\ ~mvRequestId)
            /\ UNCHANGED <<mvX, mvRequestId>>
       ELSE /\ mvX' = clampValue(clientX - mvDelta, 0, AreaWidth)
            /\ IF mvX' # mvPos
               THEN mvRequestId' = TRUE /\ mvFrame' = TRUE
               ELSE /\ mvFrame' = (mvFrame /\ ~mvRequestId)
                    /\ UNCHANGED mvRequestId
    /\ UNCHANGED <<mvEnabled, mvMouseDown, mvListening, mvDelta, mvPos, mvTarget,
                   mvPressed, mvEvents>>

\* The button goes up; lines 367-380 when the listener of 'mouseup' is on
\* document
OnMoveEnd ==
    /\ MovableLives
    /\ mvPressed
    /\ mvPressed' = FALSE
    /\ IF mvListening
       THEN /\ mvListening' = FALSE
            /\ dispatched("moveend")
       ELSE UNCHANGED <<mvListening, mvEvents>>
    /\ UNCHANGED <<mvEnabled, mvMouseDown, mvRequestId, mvFrame, mvDelta, mvX, mvPos,
                   mvTarget>>

\* The browser runs the frame that is queued, lines 429-443; draw() is
\* lines 449-462
OnDraw(cancelled) ==
    /\ MovableLives
    /\ mvFrame
    /\ mvFrame' = FALSE
    /\ mvRequestId' = FALSE
    /\ dispatched("move")
    /\ IF cancelled THEN UNCHANGED <<mvPos, mvTarget>>
       ELSE mvPos' = mvX /\ mvTarget' = mvX
    /\ UNCHANGED <<mvEnabled, mvMouseDown, mvListening, mvDelta, mvX, mvPressed>>

MovableNext ==
    \/ Enable
    \/ Disable
    \/ Destroy
    \/ \E clientX \in ClientXs, cancelled \in BOOLEAN : OnMoveStart(clientX, cancelled)
    \/ \E clientX \in ClientXs, movementX \in MovementXs : OnMove(clientX, movementX)
    \/ OnMoveEnd
    \/ \E cancelled \in BOOLEAN : OnDraw(cancelled)

---------------------------------------------------------------------------
(* The specifications.  A behaviour exercises one component; the others    *)
(* stay idle.                                                              *)

InitCA == CaInit /\ HexIdle /\ BlendIdle /\ ClosestIdle /\ PaletteIdle /\
    ConvIdle /\ DeltaIdle /\ TransferIdle /\ ToneIdle /\ SpaceIdle /\
    InvertIdle /\ WhitepointIdle /\ RegistryIdle /\ WalkIdle /\
    SliderIdle /\ MovableIdle
InitHex == HexInit /\ CaIdle /\ BlendIdle /\ ClosestIdle /\ PaletteIdle /\
    ConvIdle /\ DeltaIdle /\ TransferIdle /\ ToneIdle /\ SpaceIdle /\
    InvertIdle /\ WhitepointIdle /\ RegistryIdle /\ WalkIdle /\
    SliderIdle /\ MovableIdle
InitBlend == BlendInit /\ CaIdle /\ HexIdle /\ ClosestIdle /\
    PaletteIdle /\ ConvIdle /\ DeltaIdle /\ TransferIdle /\ ToneIdle /\
    SpaceIdle /\ InvertIdle /\ WhitepointIdle /\ RegistryIdle /\
    WalkIdle /\ SliderIdle /\ MovableIdle
InitClosest == ClosestInit /\ CaIdle /\ HexIdle /\ BlendIdle /\
    PaletteIdle /\ ConvIdle /\ DeltaIdle /\ TransferIdle /\ ToneIdle /\
    SpaceIdle /\ InvertIdle /\ WhitepointIdle /\ RegistryIdle /\
    WalkIdle /\ SliderIdle /\ MovableIdle
InitPalette == PaletteInit /\ CaIdle /\ HexIdle /\ BlendIdle /\
    ClosestIdle /\ ConvIdle /\ DeltaIdle /\ TransferIdle /\ ToneIdle /\
    SpaceIdle /\ InvertIdle /\ WhitepointIdle /\ RegistryIdle /\
    WalkIdle /\ SliderIdle /\ MovableIdle
InitConv == ConvInit /\ CaIdle /\ HexIdle /\ BlendIdle /\ ClosestIdle /\
    PaletteIdle /\ DeltaIdle /\ TransferIdle /\ ToneIdle /\ SpaceIdle /\
    InvertIdle /\ WhitepointIdle /\ RegistryIdle /\ WalkIdle /\
    SliderIdle /\ MovableIdle
InitDelta == DeltaInit /\ CaIdle /\ HexIdle /\ BlendIdle /\ ClosestIdle /\
    PaletteIdle /\ ConvIdle /\ TransferIdle /\ ToneIdle /\ SpaceIdle /\
    InvertIdle /\ WhitepointIdle /\ RegistryIdle /\ WalkIdle /\
    SliderIdle /\ MovableIdle
InitTransfer == TransferInit /\ CaIdle /\ HexIdle /\ BlendIdle /\
    ClosestIdle /\ PaletteIdle /\ ConvIdle /\ DeltaIdle /\ ToneIdle /\
    SpaceIdle /\ InvertIdle /\ WhitepointIdle /\ RegistryIdle /\
    WalkIdle /\ SliderIdle /\ MovableIdle
InitTone == ToneInit /\ CaIdle /\ HexIdle /\ BlendIdle /\ ClosestIdle /\
    PaletteIdle /\ ConvIdle /\ DeltaIdle /\ TransferIdle /\ SpaceIdle /\
    InvertIdle /\ WhitepointIdle /\ RegistryIdle /\ WalkIdle /\
    SliderIdle /\ MovableIdle
InitSpace == SpaceInit /\ CaIdle /\ HexIdle /\ BlendIdle /\ ClosestIdle /\
    PaletteIdle /\ ConvIdle /\ DeltaIdle /\ TransferIdle /\ ToneIdle /\
    InvertIdle /\ WhitepointIdle /\ RegistryIdle /\ WalkIdle /\
    SliderIdle /\ MovableIdle
InitInvert == InvertInit /\ CaIdle /\ HexIdle /\ BlendIdle /\
    ClosestIdle /\ PaletteIdle /\ ConvIdle /\ DeltaIdle /\ TransferIdle /\
    ToneIdle /\ SpaceIdle /\ WhitepointIdle /\ RegistryIdle /\ WalkIdle /\
    SliderIdle /\ MovableIdle
InitWhitepoint == WhitepointInit /\ CaIdle /\ HexIdle /\ BlendIdle /\
    ClosestIdle /\ PaletteIdle /\ ConvIdle /\ DeltaIdle /\ TransferIdle /\
    ToneIdle /\ SpaceIdle /\ InvertIdle /\ RegistryIdle /\ WalkIdle /\
    SliderIdle /\ MovableIdle
InitRegistry == RegistryInit /\ CaIdle /\ HexIdle /\ BlendIdle /\
    ClosestIdle /\ PaletteIdle /\ ConvIdle /\ DeltaIdle /\ TransferIdle /\
    ToneIdle /\ SpaceIdle /\ InvertIdle /\ WhitepointIdle /\ WalkIdle /\
    SliderIdle /\ MovableIdle
InitWalk == WalkInit /\ CaIdle /\ HexIdle /\ BlendIdle /\ ClosestIdle /\
    PaletteIdle /\ ConvIdle /\ DeltaIdle /\ TransferIdle /\ ToneIdle /\
    SpaceIdle /\ InvertIdle /\ WhitepointIdle /\ RegistryIdle /\
    SliderIdle /\ MovableIdle
InitSlider == SliderInit /\ CaIdle /\ HexIdle /\ BlendIdle /\
    ClosestIdle /\ PaletteIdle /\ ConvIdle /\ DeltaIdle /\ TransferIdle /\
    ToneIdle /\ SpaceIdle /\ InvertIdle /\ WhitepointIdle /\
    RegistryIdle /\ WalkIdle /\ MovableIdle
InitMovable == MovableInit /\ CaIdle /\ HexIdle /\ BlendIdle /\
    ClosestIdle /\ PaletteIdle /\ ConvIdle /\ DeltaIdle /\ TransferIdle /\
    ToneIdle /\ SpaceIdle /\ InvertIdle /\ WhitepointIdle /\
    RegistryIdle /\ WalkIdle /\ SliderIdle

Init == InitCA \/ InitHex \/ InitBlend \/ InitClosest \/ InitPalette \/
    InitConv \/ InitDelta \/ InitTransfer \/ InitTone \/ InitSpace \/
    InitInvert \/ InitWhitepoint \/ InitRegistry \/ InitWalk \/
    InitSlider \/ InitMovable

NextCA == CaNext /\ UNCHANGED <<hexVars, blendVars, closestVars, palVars,
    convVars, deltaVars, tfVars, toneVars, spaceVars, invertVars, wpVars,
    regVars, walkVars, sliderVars, movableVars>>
NextHex == HexNext /\ UNCHANGED <<caVars, blendVars, closestVars, palVars,
    convVars, deltaVars, tfVars, toneVars, spaceVars, invertVars, wpVars,
    regVars, walkVars, sliderVars, movableVars>>
NextBlend == BlendNext /\ UNCHANGED <<caVars, hexVars, closestVars,
    palVars, convVars, deltaVars, tfVars, toneVars, spaceVars, invertVars,
    wpVars, regVars, walkVars, sliderVars, movableVars>>
NextClosest == ClosestNext /\ UNCHANGED <<caVars, hexVars, blendVars,
    palVars, convVars, deltaVars, tfVars, toneVars, spaceVars, invertVars,
    wpVars, regVars, walkVars, sliderVars, movableVars>>
NextPalette == PaletteNext /\ UNCHANGED <<caVars, hexVars, blendVars,
    closestVars, convVars, deltaVars, tfVars, toneVars, spaceVars,
    invertVars, wpVars, regVars, walkVars, sliderVars, movableVars>>
NextConv == ConvNext /\ UNCHANGED <<caVars, hexVars, blendVars,
    closestVars, palVars, deltaVars, tfVars, toneVars, spaceVars,
    invertVars, wpVars, regVars, walkVars, sliderVars, movableVars>>
NextDelta == DeltaNext /\ UNCHANGED <<caVars, hexVars, blendVars,
    closestVars, palVars, convVars, tfVars, toneVars, spaceVars,
    invertVars, wpVars, regVars, walkVars, sliderVars, movableVars>>
NextTransfer == TransferNext /\ UNCHANGED <<caVars, hexVars, blendVars,
    closestVars, palVars, convVars, deltaVars, toneVars, spaceVars,
    invertVars, wpVars, regVars, walkVars, sliderVars, movableVars>>
NextTone == ToneNext /\ UNCHANGED <<caVars, hexVars, blendVars,
    closestVars, palVars, convVars, deltaVars, tfVars, spaceVars,
    invertVars, wpVars, regVars, walkVars, sliderVars, movableVars>>
NextSpace == SpaceNext /\ UNCHANGED <<caVars, hexVars, blendVars,
    closestVars, palVars, convVars, deltaVars, tfVars, toneVars,
    invertVars, wpVars, regVars, walkVars, sliderVars, movableVars>>
NextInvert == InvertNext /\ UNCHANGED <<caVars, hexVars, blendVars,
    closestVars, palVars, convVars, deltaVars, tfVars, toneVars, spaceVars,
    wpVars, regVars, walkVars, sliderVars, movableVars>>
NextWhitepoint == WhitepointNext /\ UNCHANGED <<caVars, hexVars, blendVars,
    closestVars, palVars, convVars, deltaVars, tfVars, toneVars, spaceVars,
    invertVars, regVars, walkVars, sliderVars, movableVars>>
NextRegistry == RegistryNext /\ UNCHANGED <<caVars, hexVars, blendVars,
    closestVars, palVars, convVars, deltaVars, tfVars, toneVars, spaceVars,
    invertVars, wpVars, walkVars, sliderVars, movableVars>>
NextWalk == WalkNext /\ UNCHANGED <<caVars, hexVars, blendVars,
    closestVars, palVars, convVars, deltaVars, tfVars, toneVars, spaceVars,
    invertVars, wpVars, regVars, sliderVars, movableVars>>
NextSlider == SliderNext /\ UNCHANGED <<caVars, hexVars, blendVars,
    closestVars, palVars, convVars, deltaVars, tfVars, toneVars, spaceVars,
    invertVars, wpVars, regVars, walkVars, movableVars>>
NextMovable == MovableNext /\ UNCHANGED <<caVars, hexVars, blendVars,
    closestVars, palVars, convVars, deltaVars, tfVars, toneVars, spaceVars,
    invertVars, wpVars, regVars, walkVars, sliderVars>>

Next == NextCA \/ NextHex \/ NextBlend \/ NextClosest \/ NextPalette \/
    NextConv \/ NextDelta \/ NextTransfer \/ NextTone \/ NextSpace \/
    NextInvert \/ NextWhitepoint \/ NextRegistry \/ NextWalk \/
    NextSlider \/ NextMovable

Spec == Init /\ [][Next]_vars

SpecCA == InitCA /\ [][NextCA]_vars

SpecHex == InitHex /\ [][NextHex]_vars

SpecBlend == InitBlend /\ [][NextBlend]_vars

SpecClosest == InitClosest /\ [][NextClosest]_vars

SpecPalette == InitPalette /\ [][NextPalette]_vars

SpecConv == InitConv /\ [][NextConv]_vars

SpecDelta == InitDelta /\ [][NextDelta]_vars

SpecTransfer == InitTransfer /\ [][NextTransfer]_vars

SpecTone == InitTone /\ [][NextTone]_vars

SpecSpace == InitSpace /\ [][NextSpace]_vars

SpecInvert == InitInvert /\ [][NextInvert]_vars

SpecWhitepoint == InitWhitepoint /\ [][NextWhitepoint]_vars

SpecRegistry == InitRegistry /\ [][NextRegistry]_vars

SpecWalk == InitWalk /\ [][NextWalk]_vars

SpecSlider == InitSlider /\ [][NextSlider]_vars

SpecMovable == InitMovable /\ [][NextMovable]_vars

---------------------------------------------------------------------------
(* C1: getMatrix(src, dst, method) returns the matrix computed for exactly *)
(* the requested (observers, illuminants, method): whenever a getMatrix    *)
(* call with valid whitepoints and a registered method returns, the result *)
(* is the unmemoized makeMatrix of those arguments (entry by entry, up to   *)
(* the rounding of the fixed-point arithmetic).                            *)
MatTol == 1 + 1

SameMatrix(a, b) ==
    \A i \in 1..3, j \in 1..3 : Abs(a[i][j] - b[i][j]) <= MatTol

C1_MatrixIsForRequestedMethod ==
    (/\ caCall.op = "getMatrix"
     /\ ~getMatrixThrows(caCall.src, caCall.dst, caCall.method))
    => /\ caResult.kind = "matrix"
       /\ SameMatrix(caResult.value,
                     computeMatrix(caCall.src, caCall.dst, caCall.method))

---------------------------------------------------------------------------
\* The hex grammar ^#?([0-9A-Fa-f]{3,4}|[0-9A-Fa-f]{6}|[0-9A-Fa-f]{8})$.
MatchesHexGrammar(str) ==
    LET d == IF str # <<>> /\ Head(str) = "#" THEN Tail(str) ELSE str
    IN  /\ Len(d) \in {3, 4, 6, 8}
        /\ \A i \in 1..Len(d) : isHexDigit(d[i])

C10_FromHexRejectsNonGrammar ==
    (hexCall.op = "fromHex" /\ ~MatchesHexGrammar(hexIn))
    => hexResult = Thrown

---------------------------------------------------------------------------
\* The colour an argument of blend denotes, given the caller's objects.
ColourOf(objects, c) ==
    IF c.kind = "string" THEN fromHex(c.hex, 2).value ELSE objects[c.ref]

\* Source-over compositing of the colour c onto a backdrop.
SourceOver(backdrop, c) ==
    LET ch(s, d) ==
          N(Rnd(s.v * c.alpha.v, RgbScale)
            + Rnd(Rnd(d.v * backdrop.alpha.v, RgbScale) * (RgbScale - c.alpha.v),
                  RgbScale))
    IN  [r |-> ch(c.r, backdrop.r), g |-> ch(c.g, backdrop.g),
         b |-> ch(c.b, backdrop.b), alpha |-> One]

RECURSIVE FoldSourceOver(_, _, _)
FoldSourceOver(backdrop, cs, i) ==
    IF i > Len(cs) THEN backdrop
    ELSE FoldSourceOver(SourceOver(backdrop, cs[i]), cs, i + 1)

\* The left fold over the colours as they were passed in.
ExpectedBlend(objects, colors) ==
    LET cs == [i \in 1..Len(colors) |-> ColourOf(objects, colors[i])]
    IN  IF Len(cs) = 1
          THEN FoldSourceOver(Rgb(One, One, One, One), cs, 1)
          ELSE FoldSourceOver(cs[1], cs, 2)

(* C7: blend over a sequence of colours is the left fold of source-over    *)
(* compositing over the colours passed in, starting from opaque white when *)
(* one colour is given and from the first colour otherwise; the result has *)
(* alpha 1.                                                                *)
C7_BlendIsLeftFold ==
    blendCall.op \in {"blend", "rgb.blend", "again"}
    => /\ blendResult.kind = "rgb"
       /\ blendResult.value.rgb = ExpectedBlend(blendCall.before, blendCall.colors)
       /\ blendResult.value.rgb.alpha = One

(* C8: blend does not modify its inputs: after the call every Rgb object   *)
(* passed in has the fields it had before, the result is a new instance,   *)
(* and the same call made again returns the same colour.                   *)
C8_BlendLeavesInputsAlone ==
    blendCall.op \in {"blend", "rgb.blend", "again"}
    => /\ objs = blendCall.before
       /\ blendResult.value.ref > Len(objs)
       /\ blendCall.op = "again" => blendResult.value.rgb = blendCall.first.value.rgb

---------------------------------------------------------------------------
\* The positions <<palette, colour>> (0-based) of the given palettes, the
\* least deltaE over all of them, and palette-major, index-minor order.
Positions(palettes) ==
    UNION { { <<p - 1, i - 1>> : i \in 1..Len(palettes[p]) } : p \in 1..Len(palettes) }

DeltaEAt(palettes, pos) == palettes[pos[1] + 1][pos[2] + 1]

Nearest(palettes) ==
    { pos \in Positions(palettes) :
        \A other \in Positions(palettes) :
            DeltaEAt(palettes, pos) <= DeltaEAt(palettes, other) }

Before(pos, other) ==
    pos[1] < other[1] \/ (pos[1] = other[1] /\ pos[2] <= other[2])

(* C5: findClosestPalette returns the palette and colour index of the      *)
(* reference colour with the least deltaE to the seed over all colours of  *)
(* all given palettes, and of several such colours the first in            *)
(* palette-major, index-minor order.                                       *)
C5_ClosestIsFirstMinimum ==
    (closestCall.op = "findClosestPalette" /\ closestResult.kind = "palette")
    => LET found == <<closestResult.value.colors, closestResult.value.baseColorIndex>>
       IN  /\ found \in Nearest(closestIn)
           /\ \A other \in Nearest(closestIn) : Before(found, other)

\* A call that returned where two colours of different palettes tie for the
\* least deltaE, which is not 0.
C5_Witness ==
    /\ closestCall.op = "findClosestPalette"
    /\ closestResult.kind = "palette"
    /\ \E a \in Nearest(closestIn), b \in Nearest(closestIn) : a[1] < b[1]
    /\ DeltaEAt(closestIn, <<closestResult.value.colors,
                             closestResult.value.baseColorIndex>>) > 0

---------------------------------------------------------------------------
PaletteOps == {"createColorPalette", "createLightPalette", "createDarkPalette"}

\* The hex digits of a seed: the seed without its leading '#'.
SeedDigits(seed) == IF seed # <<>> /\ Head(seed) = "#" THEN Tail(seed) ELSE seed

\* The colour of a seed written canonically: 3 or 4 digits doubled, an
\* alpha of FF left out, upper case.
Doubled(digits) ==
    IF Len(digits) \in {3, 4}
      THEN [k \in 1..2 * Len(digits) |-> digits[(k + 1) \div 2]]
      ELSE digits

WithoutOpaqueAlpha(digits) ==
    IF Len(digits) = 8 /\ SubSeq(digits, 7, 8) = <<"F", "F">>
      THEN SubSeq(digits, 1, 6)
      ELSE digits

CanonicalHex(seed) == WithoutOpaqueAlpha(toUpperCase(Doubled(SeedDigits(seed))))

\* The colour the palette holds at its baseColorIndex (0-based).
BaseColor(palette) == palette.colors[palette.baseColorIndex + 1]

ValidBaseIndex(palette) ==
    /\ palette.baseColorIndex \in 0..Len(palette.colors) - 1
    /\ palette.baseColorIndex \in 0..13

C3_PaletteLengths ==
    /\ palCall.op = "createColorPalette"
         => palResult.kind = "palette" /\ Len(palResult.value.colors) = 14
    /\ palCall.op \in {"createLightPalette", "createDarkPalette"}
         => palResult.kind = "palette" /\ Len(palResult.value.colors) = 10

\* A channel or alpha that is a number within [0, 1].
InUnitRange(x) == ~x.nan /\ 0 <= x.v /\ x.v <= RgbScale

RuleOffsets(rule) ==
    CASE rule = "complementary"      -> <<180>>
      [] rule = "splitComplementary" -> <<150, -150>>
      [] rule = "analogous"          -> <<30, -30>>
      [] rule = "triadic"            -> <<120, -120>>
      [] rule = "tetradic"           -> <<90, 180, 270>>
      [] OTHER                       -> <<>>

\* The seed's colour rotated in HSL by an offset.
RotatedSeed(seed, offset) ==
    hslToRgb(rotate(toHsl(fromHex(seed, 0).value), N(offset))).value

(* C6: createColorPalettesByRule(seed, rule) returns the base palette of   *)
(* the seed followed by one 14-colour palette per hue offset of the rule,  *)
(* each built from the seed rotated in HSL by that offset; for a rule name *)
(* that is not one of the six it returns the base palette alone.           *)
C6_PalettesPerRule ==
    palCall.op = "createColorPalettesByRule"
    => /\ palResult.kind = "palettes"
       /\ Len(palResult.value) = 1 + Len(RuleOffsets(palCall.rule))
       /\ \A k \in 1..Len(palResult.value) : Len(palResult.value[k].colors) = 14
       /\ BaseColor(palResult.value[1]) = fromHex(palSeed, 0).value
       /\ \A k \in 2..Len(palResult.value) :
             toHex(BaseColor(palResult.value[k]))
               = toHex(RotatedSeed(palSeed, RuleOffsets(palCall.rule)[k - 1]))

----------------------------------------------------------------------------
\* The digits of a grammar string: the string without its optional '#'.
DigitsOf(h) == IF h # <<>> /\ Head(h) = "#" THEN Tail(h) ELSE h

\* The RRGGBBAA expansion of 3, 4, 6 or 8 digits, FF for a missing alpha.
Expansion(d) ==
    LET full == IF Len(d) \in {3, 4}
                  THEN [k \in 1..(2 * Len(d)) |-> d[(k + 1) \div 2]]
                  ELSE d
    IN  IF Len(full) = 6 THEN full \o <<"F", "F">> ELSE full

\* RRGGBB, followed by AA exactly when the alpha byte is below FF.
ExpandedHex(d) ==
    LET full == toUpperCase(Expansion(d))
    IN  IF SubSeq(full, 7, 8) = <<"F", "F">> THEN SubSeq(full, 1, 6) ELSE full

---------------------------------------------------------------------------
\* An Rgb with 8-bit channels: what a 6-digit hex colour parses to.
IsByteColour(rgb) ==
    \A c \in {rgb.r, rgb.g, rgb.b} : \E b \in 0..255 : c = byteToUnit(N(b))

ConvMax == max3(convRgb.r.v, convRgb.g.v, convRgb.b.v)
ConvMin == min3(convRgb.r.v, convRgb.g.v, convRgb.b.v)

(* C13: for every Rgb with components in [0, 1], the hue toHsv, toHsl and  *)
(* toHwb return is a whole number of degrees in 0..359, and when the       *)
(* largest and the least channel are equal the hue is 0 and the saturation *)
(* (of toHsv and toHsl) is 0.                                              *)
C13_HueIsWholeDegreeInRange ==
    convCall.op \in {"toHsv", "toHsl", "toHwb"}
    => /\ ~convResult.value.h.nan
       /\ convResult.value.h.v \in 0..359
       /\ ConvMax = ConvMin
            => /\ convResult.value.h.v = 0
               /\ convCall.op \in {"toHsv", "toHsl"} => convResult.value.s = 0

\* FF0001, whose hue rounds up to a full turn, was converted: the hue is
\* wrapped to 0 and the colour is saturated.
C13_Witness ==
    /\ convCall.op = "toHsv"
    /\ convRgb = Rgb(One, N(0), byteToUnit(N(1)), One)
    /\ convResult.value.h = N(0)
    /\ convResult.value.s = RgbScale

---------------------------------------------------------------------------
\* 1e-4 in chroma units.
LowChroma == ChromaScale \div 10000

\* The low-chroma branch was taken: dHueDeg is 0 and avgHueDeg is h1 + h2.
TookLowChromaBranch ==
    /\ deltaResult.value.isLowChroma
    /\ deltaResult.value.dHueDeg = 0
    /\ deltaResult.value.avgHueDeg = deltaIn.hue1 + deltaIn.hue2

\* The Sharma hue difference and mean hue were computed.
TookSharmaBranch ==
    /\ ~deltaResult.value.isLowChroma
    /\ deltaResult.value.dHueDeg = dHueDeg(deltaIn.hue2 - deltaIn.hue1)
    /\ deltaResult.value.avgHueDeg =
          avgHueDeg(deltaIn.hue2 - deltaIn.hue1, deltaIn.hue1 + deltaIn.hue2)

(* C16 as stated: deltaE2000 takes the low-chroma branch exactly when both *)
(* chromas are below 1e-4, and the Sharma formulas when at most one is.    *)
C16_LowChromaWhenBoth ==
    deltaCall.op = "deltaE2000"
    => IF deltaIn.chroma1 < LowChroma /\ deltaIn.chroma2 < LowChroma
         THEN TookLowChromaBranch ELSE TookSharmaBranch

(* C16, amended: deltaE2000 takes the low-chroma branch (hue difference 0, *)
(* mean hue h1 + h2, not halved) exactly when at least one of the two      *)
(* chromas is below 1e-4, and the Sharma formulas when neither is.         *)
C16_LowChromaWhenEither ==
    deltaCall.op = "deltaE2000"
    => IF deltaIn.chroma1 < LowChroma \/ deltaIn.chroma2 < LowChroma
         THEN TookLowChromaBranch ELSE TookSharmaBranch

\* One chroma below 1e-4, the other not, hues 90 and 270: the hue difference
\* was forced to 0 and the mean hue is 360, the sum.
C16_Witness ==
    /\ deltaCall.op = "deltaE2000"
    /\ deltaIn.chroma1 = 5
    /\ deltaIn.chroma2 = 40 * ChromaScale
    /\ deltaIn.hue1 = 90 * DegScale
    /\ deltaIn.hue2 = 270 * DegScale
    /\ deltaResult.value = [isLowChroma |-> TRUE, dHueDeg |-> 0,
                            avgHueDeg |-> 360 * DegScale]

(* C17: outside the low-chroma case, for modified hues h1, h2 in [0, 360), *)
(* the hue difference is h2 - h1 folded by 360 into [-180, 180], the mean  *)
(* hue is (h1 + h2)/2 when |h2 - h1| <= 180, otherwise (h1 + h2 + 360)/2   *)
(* when h1 + h2 < 360 and (h1 + h2 - 360)/2 when h1 + h2 >= 360, and the   *)
(* mean hue lies in [0, 360].                                              *)
C17_SharmaHueTerms ==
    (/\ deltaCall.op = "deltaE2000"
     /\ ~deltaResult.value.isLowChroma
     /\ deltaIn.hue1 < 360 * DegScale
     /\ deltaIn.hue2 < 360 * DegScale)
    => LET diff == deltaIn.hue2 - deltaIn.hue1
           sum == deltaIn.hue1 + deltaIn.hue2
           dH == deltaResult.value.dHueDeg
           avg == deltaResult.value.avgHueDeg
       IN  /\ dH \in {diff - 360 * DegScale, diff, diff + 360 * DegScale}
           /\ Abs(dH) <= 180 * DegScale
           /\ Abs(diff) <= 180 * DegScale => dH = diff /\ 2 * avg = sum
           /\ (Abs(diff) > 180 * DegScale /\ sum < 360 * DegScale)
                => 2 * avg = sum + 360 * DegScale
           /\ (Abs(diff) > 180 * DegScale /\ sum >= 360 * DegScale)
                => 2 * avg = sum - 360 * DegScale
           /\ avg \in 0..(360 * DegScale)

\* Hues 90 and 270.4, the case of Lab(100, 0, 10) and Lab(100, 0.1, -127.5):
\* the difference folds to -179.6 and the mean hue to 0.2.
C17_Witness ==
    /\ deltaCall.op = "deltaE2000"
    /\ deltaIn.hue1 = 90 * DegScale
    /\ deltaIn.hue2 = 2704
    /\ deltaResult.value = [isLowChroma |-> FALSE, dHueDeg |-> -1796, avgHueDeg |-> 2]

---------------------------------------------------------------------------
(* C19: in each of the seven RGB spaces toGamma and toLinear are inverse   *)
(* to each other: applying one to what the other returned gives the value  *)
(* started from, up to the resolution of the fixed-point model, below and  *)
(* above the thresholds and for negative values.                           *)

\* The distance, in units, a round trip may be off by rounding alone
TfTolerance == 5 * 10

RoundTripDone == tfCall \notin {NoCall, Idle} /\ tfCall.step = 2

C19_TransferFunctionsAreInverse ==
    RoundTripDone => Abs(tfResult.value - tfIn.value) <= TfTolerance

---------------------------------------------------------------------------
(* C15: getColorTone returns 'dark' exactly when the contrast of the       *)
(* colour to white is at least 3.1 or its contrast to black is at most its *)
(* contrast to white, and 'light' otherwise; the strings 'light' and       *)
(* 'dark' are returned as they are; the result is one of the two strings.  *)

ToneIsDark(color) ==
    \/ contrastRatio(color, toneWhite) >= 31 * (TfScale \div 10)
    \/ contrastRatio(color, toneBlack) <= contrastRatio(color, toneWhite)

C15_ToneIsDarkOrLight ==
    toneCall = [op |-> "getColorTone"] =>
        /\ toneResult.value \in {"light", "dark"}
        /\ toneIn.type = "string" => toneResult.value = toneIn.value
        /\ toneIn.type = "rgb" =>
               (toneResult.value = "dark" <=> ToneIsDark(toneIn.value))

\* A colour with contrast 2.61 to white and 1.51 to a grey installed as
\* black: dark by the second alternative alone
C15_Witness ==
    /\ toneCall = [op |-> "getColorTone"]
    /\ toneIn.type = "rgb"
    /\ toneIn.value = Grey(160)
    /\ toneWhite = white
    /\ toneBlack = Grey(128)
    /\ contrastRatio(Grey(160), toneWhite) < 31 * (TfScale \div 10)
    /\ toneResult = Returned("string", "dark")

---------------------------------------------------------------------------
(* C20: whatever calls were made on the space before,                      *)
(* getTransformMatrix(type, digits) returns the matrix rounded to digits   *)
(* decimals when digits >= 4 and the unrounded matrix when digits = -1.    *)

MatrixOfType(type) == IF type = "toXyz" THEN proPhotoToXyz ELSE proPhotoToRgb

MatrixAtDigits(type, digits) ==
    IF digits >= 4
    THEN [i \in 1..3 |-> [j \in 1..3 |-> roundFloat(MatrixOfType(type)[i][j], digits)]]
    ELSE MatrixOfType(type)

---------------------------------------------------------------------------
(* C21: toRgbSpace(rgb, target, method) with a registered method returns   *)
(* the vector got with the adaptation matrix from the whitepoint of the    *)
(* source space to the whitepoint of the target space under that method,   *)
(* whatever calls were made before.                                        *)

SpaceMeta(space) ==
    [illuminant |-> RgbColorSpaces[space].illuminant, observer |-> Undefined]

AdaptedRgb(src, dst, rgb, method) ==
    linearTransform(
        multiplyMatrices(RgbColorSpaces[dst].toRgb,
            multiplyMatrices(computeMatrix(SpaceMeta(src), SpaceMeta(dst), method),
                             RgbColorSpaces[src].toXyz)), rgb)

SameVector(a, b) == \A i \in 1..3 : Abs(a[i] - b[i]) <= MatTol

C21_AdaptsBetweenSpaceWhitepoints ==
    (caCall.op = "toRgbSpace" /\ hasMatrix(caCall.method))
    => /\ caResult.kind = "vector"
       /\ SameVector(caResult.value,
                     AdaptedRgb(caCall.src, caCall.dst, caCall.rgb, caCall.method))

---------------------------------------------------------------------------
(* C22: invertMatrix raises an error when the determinant of its argument  *)
(* is zero, and a matrix it returns has finite entries only.               *)

C22_SingularMatrixIsRejected ==
    invertCall = [op |-> "invertMatrix"] =>
        /\ determinant(invertIn) = 0 => invertResult = Thrown
        /\ invertResult.kind = "matrix" =>
               \A i \in 1..3, j \in 1..3 : invertResult.value[i][j].kind = "finite"

---------------------------------------------------------------------------
(* C23: getWhitepoint raises an error whenever no xy is given and the      *)
(* illuminant is not in the table of the observer that the method reads    *)
(* (the illuminants for ASTM E308, the chromaticities for IEC 61966-2-1);  *)
(* it never returns undefined.                                             *)

TableOfMethod(method) ==
    IF method = IlluminantMethod.ASTM_E308 THEN Illuminant ELSE Chromaticity

IlluminantIsDefined(meta) ==
    LET table    == TableOfMethod(OrDefault(meta.method, IlluminantMethod.IEC_61966))
        observer == OrDefault(meta.observer, "2")
    IN  /\ observer \in DOMAIN table
        /\ OrDefault(meta.illuminant, "D65") \in DOMAIN table[observer]

NoXy(meta) == meta.xy \in {UndefinedXy, NullXy}

C23_UnknownIlluminantIsRejected ==
    wpCall = [op |-> "getWhitepoint"] =>
        /\ (NoXy(wpIn) /\ ~IlluminantIsDefined(wpIn)) => wpResult = Thrown
        /\ wpResult.kind # "undefined"

---------------------------------------------------------------------------
(* C24: getMatrix and adapt raise an error whenever the method is not a    *)
(* registered one, whatever the cache holds.                               *)

C24_UnknownMethodIsRejected ==
    (caCall.op \in {"getMatrix", "adapt"} /\ ~hasMatrix(caCall.method))
    => caResult = Thrown

---------------------------------------------------------------------------
(* C26: the cache of adaptation matrices only grows: a step keeps every    *)
(* key the cache has, with the matrix it has; and a call made with the     *)
(* arguments of the call before it returns what that call returned.        *)

CacheIsKept ==
    \A key \in DOMAIN cache : key \in DOMAIN cache' /\ cache'[key] = cache[key]

RepeatedCall == caCalls' = caCalls + 1 /\ caCall' = caCall

C26_CacheIsInsertionOnly ==
    [][CacheIsKept /\ (RepeatedCall => caResult' = caResult)]_vars

\* A second call that was answered from the cache: it names a method that
\* is not registered, for which no matrix can be made
C26_Witness ==
    /\ caCalls = 2
    /\ caCall.op = "getMatrix"
    /\ caCall.method = "cat016"
    /\ cacheKey(caCall.src, caCall.dst) \in DOMAIN cache
    /\ caResult = Returned("matrix", cache[cacheKey(caCall.src, caCall.dst)])

---------------------------------------------------------------------------
(* C25: addMatrix with a name the registry holds raises an error and       *)
(* leaves the registry as it is; with a new name it succeeds, and then     *)
(* hasMatrix of the name is true and another addMatrix of the name raises. *)

AddMatrixStep == regCalls' = regCalls + 1 /\ regCall'.op = "addMatrix"

IsRegistered(method) == method \in DOMAIN registry.own

C25_DuplicateMethodIsRejected ==
    [][AddMatrixStep =>
         IF IsRegistered(regCall'.method)
         THEN regResult' = Thrown /\ registry' = registry
         ELSE /\ regResult' = Returned("undefined", <<>>)
              /\ hasMatrixIn(registry', regCall'.method) = Returned("boolean", TRUE)
              /\ \A matrix \in NewMatrices :
                     addMatrix(registry', regCall'.method, matrix) = <<Thrown, registry'>>]_vars

---------------------------------------------------------------------------
(* C27: fromHsv(h, s, v), s and v percentages, returns the Rgb that        *)
(* Hsv.toRgb gives for the HSV colour (h, s / 100, v / 100): its third     *)
(* argument is the HSV value, not the HSL lightness.                       *)

C27_FromHsvIsHsvToRgb ==
    convCall.op = "fromHsv" =>
        convResult = hsvToRgb(Hsv(N(convCall.hue),
                                  convCall.saturation * (RgbScale \div 100),
                                  convCall.value * (RgbScale \div 100), One))

---------------------------------------------------------------------------
(* C28: the lightness the tone walk assigns to a tone that is not the seed *)
(* is within [0, 100] and at most the running maximum: 100 at tone 0 and   *)
(* at tone 10, max(L0 - 1.7, 0) right after the seed, and otherwise        *)
(* max(lightness of the tone before - 1.7, 0).                             *)

AtLeastZero(v) == IF v < 0 THEN 0 ELSE v

RunningMax ==
    IF walkIndex \in {0, 10} THEN 100 * LchScale
    ELSE IF walkTone.seed THEN AtLeastZero(walkCtx.colorLCH[1] - 170)
    ELSE AtLeastZero(walkTone.lightness.v - 170)

ToneStep == walkIndex' = walkIndex + 1 /\ ~walkTone'.seed

---------------------------------------------------------------------------
(* C29: after any operations on a RectSlider, setValue(v) returns true and *)
(* moves the thumb exactly when v clamped to the ranges differs from the   *)
(* value of the slider, and returns false leaving the value otherwise; and *)
(* prevValue is never the object the value of the slider is.               *)

SetValueStep == slOps' = slOps + 1 /\ slCall'.op = "setValue"

clampedValue(value) ==
    XY(clampValue(value.x, slider.xMin, slider.xMax),
       clampValue(value.y, slider.yMin, slider.yMax))

ReportsTheChange ==
    /\ slResult'.value = (clampedValue(slCall'.arg) # slValue)
    /\ slValue' = clampedValue(slCall'.arg)

MovesTheThumb ==
    IF slResult'.value THEN slThumb' = getPositionByValue(slider, slValue')
    ELSE slThumb' = slThumb

C29_SetValueReportsEveryChange ==
    [][/\ slPrev'.kind # "same"
       /\ SetValueStep => (ReportsTheChange /\ MovesTheThumb)]_vars

---------------------------------------------------------------------------
(* C30: the events of a drag are dispatched in the order movestart, move   *)
(* any number of times, moveend once: 'move' and 'moveend' are dispatched, *)
(* and onDraw redraws the target, only between a 'movestart' that was not  *)
(* cancelled and the 'moveend' after it, and 'movestart' only outside.     *)

DragEvents(log) == { i \in 1..Len(log) : log[i] \in {"movestart", "moveend"} }

\* The last of 'movestart' and 'moveend' in the log is a 'movestart'
InDrag(log) ==
    /\ DragEvents(log) # {}
    /\ log[CHOOSE i \in DragEvents(log) : \A j \in DragEvents(log) : j <= i] = "movestart"

Dispatches(type) ==
    /\ Len(mvEvents') = Len(mvEvents) + 1
    /\ mvEvents'[Len(mvEvents')] = type

C30_EventsOfADragAreOrdered ==
    [][/\ (Dispatches("movestart") \/ Dispatches("cancelled")) => ~InDrag(mvEvents)
       /\ (Dispatches("move") \/ Dispatches("moveend")) => InDrag(mvEvents)
       /\ mvTarget' # mvTarget => InDrag(mvEvents)]_vars

=============================================================================
